---- MODULE Spec2Model ----
(***************************************************************************)
(* Concurrency and coordination core of media_manager:                     *)
(*   - NotificationService token lock (common/notification_service.py)     *)
(*   - MediaFileHandler watcher (watcher/file_mover.py, rev 20250429133321)*)
(*   - DownloadManager queue and TelegramDownloader (downloader/)          *)
(*   - AsyncRateLimiter / ThreadedRateLimiter / RateLimiter                *)
(* Each subsystem has its own next-state relation and specification; the   *)
(* variables of the other subsystems are left unchanged.                   *)
(***************************************************************************)
EXTENDS Integers, Sequences, FiniteSets, TLC

VARIABLES
    token_locked,    \* asyncio.Lock._locked of _token_lock
    token_waiters,   \* asyncio.Lock._waiters: FIFO of the parties blocked in acquire()
    token_woken,     \* waiters whose future was resolved by release() and that have not resumed yet
    tpc,             \* position of each party in its code
    waited,          \* seconds a service has been blocked in acquire_token (0 once it got the lock)
    dl_final,        \* the downloader's current call is the one of _download_file line 193
    notif_running,   \* NotificationService._running and not _stop_event
    holds,           \* history: parties that acquired the token and have not released it themselves
    acq_ret,         \* history: result of each service's latest acquire_token call
    stream           \* history: the downloader's message stream on the channel (see StreamAfter)

tokenVars == <<token_locked, token_waiters, token_woken, tpc, waited, dl_final,
               notif_running, holds, acq_ret, stream>>

VARIABLES
    stopping,          \* MediaFileHandler._stopping
    processing_files,  \* MediaFileHandler._processing_files
    tasks,             \* MediaFileHandler._tasks
    hpc,               \* position of the coroutine of each creation event
    hpath,             \* the path of each creation event
    hcancel,           \* Task.cancel() was called and CancelledError is not delivered yet
    spc,               \* position of MediaFileHandler.stop
    stopwait,          \* the tasks stop() waits for in asyncio.wait
    dispatched,        \* history: number of categorizer.process_file calls per path
    hres,              \* history: what became of each _handle_new_file call
    hconc,             \* history: the call made its dedup check while another call for the path was in flight
    midstab,           \* history: number of handlers waiting for stability when stop() was called
    stop_waited        \* seconds stop() has spent in asyncio.wait(tasks, timeout=5)

watchVars == <<stopping, processing_files, tasks, hpc, hpath, hcancel, spc, stopwait,
               dispatched, hres, hconc, midstab, stop_waited>>

VARIABLES
    snow,           \* time.time(), in polling intervals
    f_exists,       \* os.path.exists(file_path)
    f_size,         \* os.path.getsize(file_path)
    f_mtime,        \* os.path.getmtime(file_path)
    f_taken,        \* the handler has moved or deleted the file
    f_changed,      \* history: the file was written or removed since the previous poll
    s_pc,           \* position of the _handle_new_file call
    s_start,        \* start_time of _wait_for_file_ready
    last_size,      \* last_size of _wait_for_file_ready
    last_modified,  \* last_modified of _wait_for_file_ready
    s_in_set,       \* file_path is in _processing_files
    s_disp_at,      \* history: the time of the categorizer.process_file call (0: none)
    s_disp_age,     \* history: the age of the modification time at that call
    s_disp_same,    \* history: the file was untouched between the previous poll and that call
    s_first_same,   \* history: the first poll that found the file as the previous poll had (0: none)
    s_out,          \* history: how categorizer.process_file ended for the dispatched file ("none": not called)
    s_unm           \* history: number of categorizer.move_to_unmatched calls the handler made

stabVars == <<snow, f_exists, f_size, f_mtime, f_taken, f_changed, s_pc, s_start,
              last_size, last_modified, s_in_set, s_disp_at, s_disp_age, s_disp_same,
              s_first_same, s_out, s_unm>>

VARIABLES
    dl_constructed,    \* DownloadManager.__init__ has run
    verify_downloads,  \* config["download"]["verify_downloads"]
    download_queue,    \* DownloadManager._download_queue
    active_downloads,  \* DownloadManager._active_downloads: file_id -> task
    tfid,              \* DownloadTask.file_id of each task
    tstatus,           \* DownloadTask.status of each task ("none": not created yet)
    wpc,               \* position of each worker task ("none": not in _worker_tasks)
    wtask,             \* the task a worker took from the queue
    transferred,       \* history: the transfer primitive has returned or raised for the task
    attempts,          \* history: number of transfer attempts made for each task
    xfail,             \* history: the tasks whose transfer raised
    dl_files,          \* the tasks with data of an unfinished transfer at their download path
    fail_notes,        \* history: number of failure notifications sent for each task
    unfinished_tasks,  \* asyncio.Queue._unfinished_tasks of _download_queue
    owing,             \* the workers that took a task and have not called task_done() since
    td_spurious        \* history: the workers that called task_done() without having taken a task

dlVars == <<dl_constructed, verify_downloads, download_queue, active_downloads, tfid,
            tstatus, wpc, wtask, transferred, attempts, xfail, dl_files, fail_notes,
            unfinished_tasks, owing, td_spurious>>

VARIABLES
    bpc,          \* TelegramDownloader: position of the handling of each media message
    bname,        \* event.file.name of each media message
    bot_active,   \* TelegramDownloader._active_downloads
    temp_files,   \* the names with a file in temp_download_dir
    final_files,  \* the names with a file in telegram_download_dir, the watched directory
    bopen,        \* where the file a running download_media call writes into is linked
    bstopping,    \* TelegramDownloader._stopping
    bstop,        \* position of TelegramDownloader.stop
    bgather,      \* the downloads asyncio.gather of stop() waits for
    connected     \* the Telegram client is connected

botVars == <<bpc, bname, bot_active, temp_files, final_files, bopen, bstopping, bstop,
             bgather, connected>>

VARIABLES
    sent_unheld   \* history: the senders of messages that went out while the sender did not hold the token

chanVars == <<sent_unheld>>

VARIABLES
    lim_kind,     \* the limiter class of the instance under test
    now,          \* time.time()
    last_update,  \* the limiter's timestamp per key (None: the key is not in the dict)
    lim_lock,     \* holder of the limiter's lock (0: free)
    cpc,          \* position of each caller
    ckey,         \* the key of a caller's wait_if_needed call
    cwake,        \* the time at which a caller's sleep is over
    cu_last,      \* history: per key, the time at which can_update last returned True
    cu_gap,       \* history: per key, the smallest time between two successive True results
    cu_denied,    \* history: per key, can_update has returned False
    first_cu,     \* history: per key, the result of can_update as the first call for the key
    w_last,       \* history: per key, the timestamp wait_if_needed last recorded
    w_gap         \* history: per key, the smallest time between two successive such timestamps

limVars == <<lim_kind, now, last_update, lim_lock, cpc, ckey, cwake, cu_last, cu_gap,
             cu_denied, first_cu, w_last, w_gap>>

VARIABLES
    sl_max,         \* SpeedLimiter.max_speed_mbps ("unset": not constructed; "None", "zero": no ceiling)
    sl_bytes,       \* SpeedLimiter._bytes_sent, in units of the bytes the ceiling allows per tick
    sl_reset,       \* SpeedLimiter._last_reset
    sl_now,         \* time.time(), in ticks
    sl_lock,        \* holder of SpeedLimiter._lock (0: free)
    sl_pc,          \* position of each caller of limit
    sl_chunk,       \* chunk_size of a caller's limit call in progress
    sl_wake,        \* the time at which a caller's sleep is over
    sl_acq,         \* the time at which a caller's call took the lock
    sl_n,           \* history: number of limit calls made
    sl_total,       \* history: sum of the chunk sizes passed to limit
    sl_maxchunk,    \* history: the largest chunk passed to limit
    sl_equal,       \* history: the size of all chunks passed (0: none yet, -1: they differ)
    sl_first,       \* history: the time of the first limit call (-1: none yet)
    sl_b2b,         \* history: no time has passed outside the sleeps of limit since the first call
    sl_done_at,     \* history: the time at which the last limit call returned
    sl_before,      \* history: _bytes_sent as the last returned call's _get_delay found it
    sl_slept,       \* history: the time between taking the lock and the return of the last returned call
    sl_ret_elapsed  \* history: the time since _last_reset at the return of the last returned call

speedVars == <<sl_max, sl_bytes, sl_reset, sl_now, sl_lock, sl_pc, sl_chunk, sl_wake,
               sl_acq, sl_n, sl_total, sl_maxchunk, sl_equal, sl_first, sl_b2b,
               sl_done_at, sl_before, sl_slept, sl_ret_elapsed>>

VARIABLES
    rpc,       \* position of each notify(wait_response=True) call
    rreg,      \* NotificationService._responses: the callers whose message_id has a future
    rfut,      \* the result of the future of each caller's message ("pending": not done)
    rreply,    \* the user's reply to each caller's message
    rwaited,   \* seconds each caller has spent in asyncio.wait_for(future, timeout)
    rret,      \* what notify returned to each caller
    r_sent,    \* history: bot.send_message returned the sent message
    r_intime   \* history: the reply was handled before response_timeout had passed

replyVars == <<rpc, rreg, rfut, rreply, rwaited, rret, r_sent, r_intime>>

VARIABLES
    st_lock,     \* StatsManager._lock: 0 when free, else the thread that holds it
    st_val,      \* StatsManager._stats[category][metric]
    st_pc,       \* position of each thread in increment
    st_arg,      \* the value of the increment call each thread is in
    st_tmp,      \* the value each thread read for its +=
    st_calls,    \* increment calls each thread has returned from
    st_sum,      \* history: sum of the values of all increment calls made
    st_overlap   \* history: an increment call was made while another was in progress

statVars == <<st_lock, st_val, st_pc, st_arg, st_tmp, st_calls, st_sum, st_overlap>>

VARIABLES
    a_lock,     \* holder of _token_lock in the question scenario ("none": free)
    a_pc,       \* position of each ensure_token_and_notify(wait_response=True) call
    a_poll,     \* position of the update-poll loop
    a_reply,    \* the user's reply to each caller's message
    a_fut,      \* the result of the future of each caller's message ("pending": not done)
    a_reg,      \* _responses: the callers whose message_id has a future
    a_waited,   \* seconds each caller has spent in asyncio.wait_for(future, timeout)
    a_ret,      \* what ensure_token_and_notify returned to each caller
    a_intime    \* history: the user replied while the caller was waiting, before response_timeout

askVars == <<a_lock, a_pc, a_poll, a_reply, a_fut, a_reg, a_waited, a_ret, a_intime>>

VARIABLES
    download_lock   \* DownloadManager._download_lock: 0 when free, else the worker that holds it

lockVars == <<download_lock>>

VARIABLES
    p_now,                   \* asyncio.get_event_loop().time(), in seconds
    p_pc,                    \* position of the download: "download", or "notify" inside the await of progress_callback
    p_received,              \* int((received_bytes / total) * 100) of the data received so far
    last_progress,           \* last_progress of _download_file
    last_notification_time,  \* last_notification_time of _download_file
    cb_time,                 \* current_time of the progress_callback call in progress
    cb_progress,             \* progress of the progress_callback call in progress
    p_sent_prog,             \* history: progress shown by the last progress notification sent (-1: none yet)
    p_sent_at                \* history: time at which the last progress notification was sent

progVars == <<p_now, p_pc, p_received, last_progress, last_notification_time, cb_time,
              cb_progress, p_sent_prog, p_sent_at>>

vars == <<tokenVars, watchVars, stabVars, dlVars, botVars, limVars, chanVars, speedVars, replyVars, statVars, askVars, lockVars, progVars>>

\* the variables of the other subsystems
notToken == <<watchVars, stabVars, dlVars, botVars, limVars, chanVars, speedVars, replyVars, statVars, askVars, lockVars, progVars>>

notWatch == <<tokenVars, stabVars, dlVars, botVars, limVars, chanVars, speedVars, replyVars, statVars, askVars, lockVars, progVars>>

notStab == <<tokenVars, watchVars, dlVars, botVars, limVars, chanVars, speedVars, replyVars, statVars, askVars, lockVars, progVars>>

\* the other subsystems without the channel history
otherDl == <<tokenVars, watchVars, stabVars, botVars, limVars, speedVars, replyVars, statVars, askVars, lockVars, progVars>>

notDl == <<otherDl, chanVars>>

notBot == <<tokenVars, watchVars, stabVars, dlVars, limVars, chanVars, speedVars, replyVars, statVars, askVars, lockVars, progVars>>

notSpeed == <<tokenVars, watchVars, stabVars, dlVars, botVars, limVars, chanVars, replyVars, statVars, askVars, lockVars, progVars>>

notReply == <<tokenVars, watchVars, stabVars, dlVars, botVars, limVars, chanVars, speedVars, statVars, askVars, lockVars, progVars>>

notStats == <<tokenVars, watchVars, stabVars, dlVars, botVars, limVars, chanVars, speedVars, replyVars, askVars, lockVars, progVars>>

notAsk == <<tokenVars, watchVars, stabVars, dlVars, botVars, limVars, chanVars, speedVars, replyVars, statVars, lockVars, progVars>>

notProg == <<tokenVars, watchVars, stabVars, dlVars, botVars, limVars, chanVars, speedVars, replyVars, statVars, askVars, lockVars>>

notLim == <<tokenVars, watchVars, stabVars, dlVars, botVars, chanVars, speedVars, replyVars, statVars, askVars, lockVars, progVars>>

(***************************************************************************)
(* Token coordinator: NotificationService._token_lock and its callers      *)
(***************************************************************************)

\* timeout=30 of asyncio.wait_for in acquire_token, in seconds
TokenTimeout == 30

\* seconds that pass in one step of the modelled clock
TickStep == 15

Downloader == "TelegramDownloader"

Services == {"TelegramDownloader", "MediaCategorizer", "MediaManager"}

Poll == "poll_updates"

Parties == Services \cup {Poll}

Min(a, b) == IF a < b THEN a ELSE b

SeqRemove(s, x) == SelectSeq(s, LAMBDA y : y # x)

\* asyncio.Lock._wake_up_first: resolve the future of the first waiter
wake_up_first(ws, woken) ==
    IF ws = <<>> THEN woken ELSE woken \cup {Head(ws)}

\* asyncio.Lock.acquire takes the lock at once when it is free and nobody waits
CanAcquireNow == ~token_locked /\ token_waiters = <<>>

\* NotificationService.release_token: release when locked() says so, whoever holds
release_token(p) ==
    /\ IF token_locked
       THEN /\ token_locked' = FALSE
            /\ token_woken' = wake_up_first(token_waiters, token_woken)
       ELSE UNCHANGED <<token_locked, token_woken>>
    /\ holds' = holds \ {p}
    /\ UNCHANGED token_waiters

\* the downloader's message stream after service p has issued a message
\* (notify runs up to the await of bot.send_message in the step in which
\* acquire_token returns): "closed" no download is announced, "started" the
\* Starting Download message of _process_media is out, "open" a progress
\* message of _download_file is out and the completion message is not, "cut" a
\* MediaCategorizer message followed a progress message, "interleaved" a
\* progress or completion message followed that
StreamAfter(p, final) ==
    IF stream = "interleaved" THEN "interleaved"
    ELSE IF p = Downloader
    THEN IF stream = "cut" THEN "interleaved"
         ELSE IF final THEN "closed"
         ELSE IF stream = "closed" THEN "started"
         ELSE "open"
    ELSE IF p = "MediaCategorizer" /\ stream = "open" THEN "cut"
    ELSE stream

\* where a service goes when ensure_token_and_notify has returned
AfterEnsure(p) == IF p = Downloader /\ dl_final THEN "dl206" ELSE "idle"

\* ensure_token_and_notify -> acquire_token, the lock is free: returns True at once
\* (final: the call is the one _download_file makes at line 193)
AcquireFast(p, final) ==
    /\ tpc[p] = "idle"
    /\ CanAcquireNow
    /\ token_locked' = TRUE
    /\ holds' = holds \cup {p}
    /\ acq_ret' = [acq_ret EXCEPT ![p] = "true"]
    /\ tpc' = [tpc EXCEPT ![p] = "notify"]
    /\ dl_final' = IF p = Downloader THEN final ELSE dl_final
    /\ stream' = StreamAfter(p, final)
    /\ UNCHANGED <<token_waiters, token_woken, waited, notif_running>>
    /\ UNCHANGED notToken

\* acquire_token, the lock is taken or others wait: the caller is suspended
AcquireBlock(p, final) ==
    /\ tpc[p] = "idle"
    /\ ~CanAcquireNow
    /\ token_waiters' = Append(token_waiters, p)
    /\ waited' = [waited EXCEPT ![p] = 0]
    /\ acq_ret' = [acq_ret EXCEPT ![p] = "none"]
    /\ tpc' = [tpc EXCEPT ![p] = "acq_wait"]
    /\ dl_final' = IF p = Downloader THEN final ELSE dl_final
    /\ UNCHANGED <<token_locked, token_woken, notif_running, holds, stream>>
    /\ UNCHANGED notToken

\* a woken waiter resumes inside Lock.acquire and takes the lock: returns True
AcquireResume(p) ==
    /\ tpc[p] = "acq_wait"
    /\ p \in token_woken
    /\ token_waiters' = SeqRemove(token_waiters, p)
    /\ token_woken' = token_woken \ {p}
    /\ token_locked' = TRUE
    /\ holds' = holds \cup {p}
    /\ acq_ret' = [acq_ret EXCEPT ![p] = "true"]
    /\ tpc' = [tpc EXCEPT ![p] = "notify"]
    /\ stream' = StreamAfter(p, dl_final)
    /\ waited' = [waited EXCEPT ![p] = 0]
    /\ UNCHANGED <<dl_final, notif_running>>
    /\ UNCHANGED notToken

\* acquire_token as it would be with the deadline not honoured: the wait is
\* given up before 30 s have passed
AcquireTimeoutEarly(p) ==
    /\ tpc[p] = "acq_wait"
    /\ p \notin token_woken
    /\ token_waiters' = SeqRemove(token_waiters, p)
    /\ acq_ret' = [acq_ret EXCEPT ![p] = "false"]
    /\ tpc' = [tpc EXCEPT ![p] = AfterEnsure(p)]
    /\ UNCHANGED <<token_locked, token_woken, waited, dl_final, notif_running,
                   holds, stream>>
    /\ UNCHANGED notToken

\* ensure_token_and_notify as it would be if it went on to notify after
\* acquire_token has returned False
AcquireTimeoutNotify(p) ==
    /\ tpc[p] = "acq_wait"
    /\ p \notin token_woken
    /\ waited[p] >= TokenTimeout
    /\ token_waiters' = SeqRemove(token_waiters, p)
    /\ acq_ret' = [acq_ret EXCEPT ![p] = "false"]
    /\ tpc' = [tpc EXCEPT ![p] = "notify"]
    /\ stream' = StreamAfter(p, dl_final)
    /\ UNCHANGED <<token_locked, token_woken, waited, dl_final, notif_running, holds>>
    /\ UNCHANGED notToken

\* wait_for cancels the pending acquire after 30 s: acquire_token returns False
\* and ensure_token_and_notify returns None
AcquireTimeout(p) ==
    /\ tpc[p] = "acq_wait"
    /\ p \notin token_woken
    /\ waited[p] >= TokenTimeout
    /\ token_waiters' = SeqRemove(token_waiters, p)
    /\ acq_ret' = [acq_ret EXCEPT ![p] = "false"]
    /\ tpc' = [tpc EXCEPT ![p] = AfterEnsure(p)]
    /\ UNCHANGED <<token_locked, token_woken, waited, dl_final, notif_running,
                   holds, stream>>
    /\ UNCHANGED notToken

\* notify has returned (or raised); the finally clause calls release_token
EnsureRelease(p) ==
    /\ tpc[p] = "notify"
    /\ release_token(p)
    /\ tpc' = [tpc EXCEPT ![p] = AfterEnsure(p)]
    /\ UNCHANGED <<waited, dl_final, notif_running, acq_ret, stream>>
    /\ UNCHANGED notToken

\* TelegramDownloader._download_file line 206: release_token after the final
\* ensure_token_and_notify has already returned
DownloadRelease ==
    /\ tpc[Downloader] = "dl206"
    /\ release_token(Downloader)
    /\ tpc' = [tpc EXCEPT ![Downloader] = "idle"]
    /\ dl_final' = FALSE
    /\ UNCHANGED <<waited, notif_running, acq_ret, stream>>
    /\ UNCHANGED notToken

\* _poll_updates: "async with self._token_lock", the lock is free
PollAcquireFast ==
    /\ tpc[Poll] = "idle"
    /\ notif_running
    /\ CanAcquireNow
    /\ token_locked' = TRUE
    /\ holds' = holds \cup {Poll}
    /\ tpc' = [tpc EXCEPT ![Poll] = "get_updates"]
    /\ UNCHANGED <<token_waiters, token_woken, waited, dl_final, notif_running,
                   acq_ret, stream>>
    /\ UNCHANGED notToken

\* _poll_updates: "async with self._token_lock", suspended without a timeout
PollAcquireBlock ==
    /\ tpc[Poll] = "idle"
    /\ notif_running
    /\ ~CanAcquireNow
    /\ token_waiters' = Append(token_waiters, Poll)
    /\ tpc' = [tpc EXCEPT ![Poll] = "acq_wait"]
    /\ UNCHANGED <<token_locked, token_woken, waited, dl_final, notif_running,
                   holds, acq_ret, stream>>
    /\ UNCHANGED notToken

PollAcquireResume ==
    /\ tpc[Poll] = "acq_wait"
    /\ Poll \in token_woken
    /\ token_waiters' = SeqRemove(token_waiters, Poll)
    /\ token_woken' = token_woken \ {Poll}
    /\ token_locked' = TRUE
    /\ holds' = holds \cup {Poll}
    /\ tpc' = [tpc EXCEPT ![Poll] = "get_updates"]
    /\ UNCHANGED <<waited, dl_final, notif_running, acq_ret, stream>>
    /\ UNCHANGED notToken

\* leaving the "async with" block: Lock.release(), which raises RuntimeError
\* when the lock is not locked; the loop then backs off for 5 s
PollRelease ==
    /\ tpc[Poll] = "get_updates"
    /\ IF token_locked
       THEN /\ token_locked' = FALSE
            /\ token_woken' = wake_up_first(token_waiters, token_woken)
            /\ tpc' = [tpc EXCEPT ![Poll] = "sleep"]
       ELSE /\ UNCHANGED <<token_locked, token_woken>>
            /\ tpc' = [tpc EXCEPT ![Poll] = "backoff"]
    /\ holds' = holds \ {Poll}
    /\ UNCHANGED <<token_waiters, waited, dl_final, notif_running, acq_ret, stream>>
    /\ UNCHANGED notToken

\* asyncio.sleep(1) or asyncio.sleep(5) is over: back to the loop condition
PollSleepDone ==
    /\ tpc[Poll] \in {"sleep", "backoff"}
    /\ tpc' = [tpc EXCEPT ![Poll] = IF notif_running THEN "idle" ELSE "stopped"]
    /\ UNCHANGED <<token_locked, token_waiters, token_woken, waited, dl_final,
                   notif_running, holds, acq_ret, stream>>
    /\ UNCHANGED notToken

\* NotificationService.stop
NotifStop ==
    /\ notif_running
    /\ notif_running' = FALSE
    /\ UNCHANGED <<token_locked, token_waiters, token_woken, tpc, waited, dl_final,
                   holds, acq_ret, stream>>
    /\ UNCHANGED notToken

\* time passes for the services blocked in acquire_token
TokenTick ==
    /\ \E p \in Services : tpc[p] = "acq_wait" /\ waited[p] < TokenTimeout
    /\ waited' = [p \in Services |->
                    IF tpc[p] = "acq_wait"
                    THEN Min(waited[p] + TickStep, TokenTimeout)
                    ELSE waited[p]]
    /\ UNCHANGED <<token_locked, token_waiters, token_woken, tpc, dl_final,
                   notif_running, holds, acq_ret, stream>>
    /\ UNCHANGED notToken

(***************************************************************************)
(* Filesystem watcher: MediaFileHandler (file_mover.py, rev 20250429133321) *)
(***************************************************************************)

\* number of creation events the watch thread delivers
MaxHandlers == 3

Handlers == 1..MaxHandlers

Paths == {"a.mp4", "b.mp4"}

\* a handler that has added its path to the processing set and has not finished
InFlight == {"wait", "process", "unmatched"}

\* on_created, on the watch thread: hand _create_processing_task to the loop
\* with run_coroutine_threadsafe; inplace: as it would be if the task were
\* created on the watch thread itself
OnCreated(P, inplace) ==
    /\ ~stopping
    /\ \E h \in Handlers :
        /\ hpc[h] = "unborn"
        /\ \A g \in Handlers : g < h => hpc[g] # "unborn"
        /\ hpc' = [hpc EXCEPT ![h] = IF inplace THEN "created" ELSE "submitted"]
        /\ hpath' = [hpath EXCEPT ![h] = P]
        /\ tasks' = IF inplace THEN tasks \cup {h} ELSE tasks
    /\ UNCHANGED <<stopping, processing_files, hcancel, spc, stopwait,
                   dispatched, hres, hconc, midstab>>
    /\ UNCHANGED stop_waited
    /\ UNCHANGED notWatch

on_created_inplace(P) == OnCreated(P, TRUE)
on_created(P) == OnCreated(P, FALSE)

\* _create_processing_task, on the loop, under _tasks_lock (held by stop()
\* while it waits for the cancelled tasks)
create_processing_task(h) ==
    /\ hpc[h] = "submitted"
    /\ spc # "waiting"
    /\ IF ~stopping
       THEN /\ hpc' = [hpc EXCEPT ![h] = "created"]
            /\ tasks' = tasks \cup {h}
       ELSE /\ hpc' = [hpc EXCEPT ![h] = "dropped"]
            /\ UNCHANGED tasks
    /\ UNCHANGED <<stopping, processing_files, hpath, hcancel, spc, stopwait,
                   dispatched, hres, hconc, midstab>>
    /\ UNCHANGED stop_waited
    /\ UNCHANGED notWatch

\* the end of _handle_new_file: the finally clause discards the path, the task
\* is done and _remove_task takes it out of _tasks
Finish(h, res) ==
    /\ processing_files' = processing_files \ {hpath[h]}
    /\ hpc' = [hpc EXCEPT ![h] = "done"]
    /\ hres' = [hres EXCEPT ![h] = res]
    /\ hcancel' = [hcancel EXCEPT ![h] = FALSE]
    /\ tasks' = tasks \ {h}

\* _handle_new_file as it would be without the test of _processing_files
handle_new_file_nodedup(h) ==
    /\ hpc[h] = "created"
    /\ IF hcancel[h]
       THEN \* cancelled before it ever ran: the coroutine body is not executed
            /\ hpc' = [hpc EXCEPT ![h] = "done"]
            /\ hres' = [hres EXCEPT ![h] = "never_ran"]
            /\ hcancel' = [hcancel EXCEPT ![h] = FALSE]
            /\ tasks' = tasks \ {h}
            /\ UNCHANGED <<processing_files, hconc>>
       ELSE /\ hconc' = [hconc EXCEPT ![h] =
                           \E g \in Handlers \ {h} :
                               hpath[g] = hpath[h] /\ hpc[g] \in InFlight]
            /\ IF stopping
               THEN \* _wait_for_file_ready raises CancelledError at once
                    Finish(h, "cancelled")
               ELSE /\ processing_files' = processing_files \cup {hpath[h]}
                    /\ hpc' = [hpc EXCEPT ![h] = "wait"]
                    /\ hres' = [hres EXCEPT ![h] = "waiting"]
                    /\ UNCHANGED <<hcancel, tasks>>
    /\ UNCHANGED <<stopping, hpath, spc, stopwait, dispatched, midstab>>
    /\ UNCHANGED stop_waited
    /\ UNCHANGED notWatch

\* first step of the task: _handle_new_file up to its first suspension, the
\* sleep in _wait_for_file_ready
handle_new_file(h) ==
    /\ hpc[h] = "created"
    /\ IF hcancel[h]
       THEN \* cancelled before it ever ran: the coroutine body is not executed
            /\ hpc' = [hpc EXCEPT ![h] = "done"]
            /\ hres' = [hres EXCEPT ![h] = "never_ran"]
            /\ hcancel' = [hcancel EXCEPT ![h] = FALSE]
            /\ tasks' = tasks \ {h}
            /\ UNCHANGED <<processing_files, hconc>>
       ELSE /\ hconc' = [hconc EXCEPT ![h] =
                           \E g \in Handlers \ {h} :
                               hpath[g] = hpath[h] /\ hpc[g] \in InFlight]
            /\ IF hpath[h] \in processing_files
               THEN \* "return" inside the try: the finally clause runs
                    Finish(h, "duplicate")
               ELSE IF stopping
               THEN \* _wait_for_file_ready raises CancelledError at once
                    Finish(h, "cancelled")
               ELSE /\ processing_files' = processing_files \cup {hpath[h]}
                    /\ hpc' = [hpc EXCEPT ![h] = "wait"]
                    /\ hres' = [hres EXCEPT ![h] = "waiting"]
                    /\ UNCHANGED <<hcancel, tasks>>
    /\ UNCHANGED <<stopping, hpath, spc, stopwait, dispatched, midstab>>
    /\ UNCHANGED stop_waited
    /\ UNCHANGED notWatch

\* one round of the loop of _wait_for_file_ready after asyncio.sleep(0.1);
\* obs is what this round observes: "timeout" (30 s are over), "again" (the
\* file is missing or still changing) or "stable"
wait_for_file_ready(h, obs) ==
    /\ hpc[h] = "wait"
    /\ IF hcancel[h]
       THEN Finish(h, "cancelled") /\ UNCHANGED dispatched
       ELSE IF obs = "timeout"
       THEN Finish(h, "timeout") /\ UNCHANGED dispatched
       ELSE IF stopping
       THEN Finish(h, "cancelled") /\ UNCHANGED dispatched
       ELSE IF obs = "again"
       THEN UNCHANGED <<processing_files, hpc, hres, hcancel, tasks, dispatched>>
       ELSE \* stable: back in _handle_new_file, "if not self._stopping"
            /\ dispatched' = [dispatched EXCEPT ![hpath[h]] = @ + 1]
            /\ hpc' = [hpc EXCEPT ![h] = "process"]
            /\ hres' = [hres EXCEPT ![h] = "dispatched"]
            /\ UNCHANGED <<processing_files, hcancel, tasks>>
    /\ UNCHANGED <<stopping, hpath, spc, stopwait, hconc, midstab>>
    /\ UNCHANGED stop_waited
    /\ UNCHANGED notWatch

\* the ways MediaCategorizer.process_file ends: it returns None when the file
\* is in the library, and raises otherwise
ProcessResults == {"returned_none", "raised"}

\* categorizer.process_file has finished (res) or CancelledError is thrown
\* into it
process_file_done(h, res) ==
    /\ hpc[h] = "process"
    /\ IF hcancel[h]
       THEN Finish(h, "dispatched")
       ELSE \* None is a false result ("if not success"), an exception is
            \* caught: move_to_unmatched either way
            /\ res \in ProcessResults
            /\ hpc' = [hpc EXCEPT ![h] = "unmatched"]
            /\ UNCHANGED <<processing_files, hres, hcancel, tasks>>
    /\ UNCHANGED <<stopping, hpath, spc, stopwait, dispatched, hconc, midstab>>
    /\ UNCHANGED stop_waited
    /\ UNCHANGED notWatch

\* categorizer.move_to_unmatched has finished, raised or was cancelled
move_to_unmatched_done(h) ==
    /\ hpc[h] = "unmatched"
    /\ Finish(h, "dispatched")
    /\ UNCHANGED <<stopping, hpath, spc, stopwait, dispatched, hconc, midstab>>
    /\ UNCHANGED stop_waited
    /\ UNCHANGED notWatch

\* stop as it would be without setting _stopping
stop_begin_noflag ==
    /\ spc = "idle"
    /\ UNCHANGED stopping
    /\ midstab' = Cardinality({h \in tasks : hpc[h] = "wait"})
    /\ IF tasks # {}
       THEN /\ hcancel' = [h \in Handlers |-> hcancel[h] \/ h \in tasks]
            /\ stopwait' = tasks
            /\ spc' = "waiting"
       ELSE /\ spc' = "returned"
            /\ UNCHANGED <<hcancel, stopwait>>
    /\ UNCHANGED <<processing_files, tasks, hpc, hpath, dispatched, hres, hconc>>
    /\ UNCHANGED stop_waited
    /\ UNCHANGED notWatch

\* MediaFileHandler.stop up to "await asyncio.wait(tasks, timeout=5)"
stop_begin ==
    /\ spc = "idle"
    /\ stopping' = TRUE
    /\ midstab' = Cardinality({h \in tasks : hpc[h] = "wait"})
    /\ IF tasks # {}
       THEN /\ hcancel' = [h \in Handlers |-> hcancel[h] \/ h \in tasks]
            /\ stopwait' = tasks
            /\ spc' = "waiting"
       ELSE /\ spc' = "returned"
            /\ UNCHANGED <<hcancel, stopwait>>
    /\ UNCHANGED <<processing_files, tasks, hpc, hpath, dispatched, hres, hconc>>
    /\ UNCHANGED stop_waited
    /\ UNCHANGED notWatch

\* timeout of asyncio.wait in stop(), in seconds
StopTimeout == 5

\* seconds that pass in one step of the clock of stop()
StopStep == 5

\* asyncio.wait returns, because every task is done or because 5 s are over;
\* stop() returns, with _tasks cleared (clear) or as it is
StopReturn(clear) ==
    /\ spc = "waiting"
    /\ stopwait \cap tasks = {} \/ stop_waited >= StopTimeout
    /\ tasks' = IF clear THEN {} ELSE tasks
    /\ stopwait' = {}
    /\ spc' = "returned"
    /\ UNCHANGED <<stopping, processing_files, hpc, hpath, hcancel, dispatched,
                   hres, hconc, midstab>>
    /\ UNCHANGED stop_waited
    /\ UNCHANGED notWatch

stop_return_noclear == StopReturn(FALSE)
stop_return == StopReturn(TRUE)

\* number of creation events delivered in the runs in which the return of
\* stop() is followed to its end
MaxStopEvents == 2

\* on_created for one of the first MaxStopEvents creation events
stop_on_created(P) ==
    /\ Cardinality({h \in Handlers : hpc[h] # "unborn"}) < MaxStopEvents
    /\ on_created(P)

\* time passes while stop() is inside asyncio.wait
WatchTick ==
    /\ spc = "waiting"
    /\ stop_waited < StopTimeout
    /\ stop_waited' = Min(stop_waited + StopStep, StopTimeout)
    /\ UNCHANGED <<stopping, processing_files, tasks, hpc, hpath, hcancel, spc,
                   stopwait, dispatched, hres, hconc, midstab>>
    /\ UNCHANGED notWatch

(***************************************************************************)
(* Stabilization gate: one _handle_new_file call with the loop of          *)
(* _wait_for_file_ready in full; time is counted in polling intervals      *)
(***************************************************************************)

\* polling intervals per second: asyncio.sleep(0.1)
PollsPerSecond == 10

\* "if time.time() - last_modified >= 1", in polling intervals
StableAge == 1 * PollsPerSecond

\* timeout=30 of _wait_for_file_ready, in polling intervals
FileTimeout == 30 * PollsPerSecond

\* time.time() when the creation event arrives
EventTime == 2 * StableAge

\* the sizes the watched file grows through; later writes only touch the mtime
MaxSize == 2

\* one pass through the body of the while loop of _wait_for_file_ready at time
\* t, for a call started at start whose locals are lsize and lmod, up to the
\* next asyncio.sleep(0.1), the return or the TimeoutError; expired is the
\* outcome of the loop condition when the timeout has expired ("timed_out":
\* TimeoutError is raised and _handle_new_file returns) and age the age the
\* modification time must have
LoopPass(t, start, lsize, lmod, expired, age) ==
    IF t - start >= FileTimeout
    THEN \* TimeoutError; the finally clause discards the path
         /\ s_pc' = expired
         /\ s_disp_at' = IF expired = "process" THEN t ELSE s_disp_at
         /\ s_disp_age' = IF expired = "process" /\ f_exists THEN t - f_mtime ELSE s_disp_age
         /\ s_disp_same' = s_disp_same
         /\ last_size' = lsize
         /\ last_modified' = lmod
         /\ UNCHANGED s_first_same
    ELSE IF ~f_exists
    THEN /\ s_pc' = "sleep"
         /\ last_size' = lsize
         /\ last_modified' = lmod
         /\ UNCHANGED <<s_disp_at, s_disp_age, s_disp_same, s_first_same>>
    ELSE IF f_size = lsize /\ f_mtime = lmod
    THEN /\ last_size' = lsize
         /\ last_modified' = lmod
         /\ s_first_same' = IF s_first_same = 0 THEN t ELSE s_first_same
         /\ IF t - lmod >= age
            THEN \* return; _handle_new_file calls categorizer.process_file
                 /\ s_pc' = "process"
                 /\ s_disp_at' = t
                 /\ s_disp_age' = t - f_mtime
                 /\ s_disp_same' = ~f_changed
            ELSE /\ s_pc' = "sleep"
                 /\ UNCHANGED <<s_disp_at, s_disp_age, s_disp_same>>
    ELSE /\ last_size' = f_size
         /\ last_modified' = f_mtime
         /\ s_first_same' = 0
         /\ s_pc' = "sleep"
         /\ UNCHANGED <<s_disp_at, s_disp_age, s_disp_same>>

\* _handle_new_file for a path that is not in the processing set: add it, call
\* _wait_for_file_ready, whose first pass runs at once
stab_handle_new_file ==
    /\ s_pc = "idle"
    /\ s_start' = snow
    /\ LoopPass(snow, snow, 0 - 1, 0, "timed_out", StableAge)
    /\ s_in_set' = TRUE
    /\ f_changed' = FALSE
    /\ UNCHANGED <<snow, f_exists, f_size, f_mtime, f_taken>>
    /\ UNCHANGED <<s_out, s_unm>>
    /\ UNCHANGED notStab

\* the loop of _wait_for_file_ready as it would be if _handle_new_file did not
\* return on TimeoutError but went on to process the file
stab_poll_fallthrough ==
    /\ s_pc = "sleep"
    /\ snow' = snow + 1
    /\ LoopPass(snow + 1, s_start, last_size, last_modified, "process", StableAge)
    /\ s_in_set' = (s_pc' # "timed_out")
    /\ f_changed' = FALSE
    /\ UNCHANGED <<s_start, f_exists, f_size, f_mtime, f_taken>>
    /\ UNCHANGED <<s_out, s_unm>>
    /\ UNCHANGED notStab

\* the loop of _wait_for_file_ready as it would be without the test of the
\* age of the modification time
stab_poll_noage ==
    /\ s_pc = "sleep"
    /\ snow' = snow + 1
    /\ LoopPass(snow + 1, s_start, last_size, last_modified, "timed_out", 0)
    /\ s_in_set' = (s_pc' # "timed_out")
    /\ f_changed' = FALSE
    /\ UNCHANGED <<s_start, f_exists, f_size, f_mtime, f_taken>>
    /\ UNCHANGED <<s_out, s_unm>>
    /\ UNCHANGED notStab

\* asyncio.sleep(0.1) is over: the next pass of the loop of _wait_for_file_ready
stab_poll ==
    /\ s_pc = "sleep"
    /\ snow' = snow + 1
    /\ LoopPass(snow + 1, s_start, last_size, last_modified, "timed_out", StableAge)
    /\ s_in_set' = (s_pc' # "timed_out")
    /\ f_changed' = FALSE
    /\ UNCHANGED <<s_start, f_exists, f_size, f_mtime, f_taken>>
    /\ UNCHANGED <<s_out, s_unm>>
    /\ UNCHANGED notStab

\* lines 81-95 of _handle_new_file: categorizer.process_file ends with res;
\* "if not success" and "except Exception" both call move_to_unmatched, which
\* catches the OSError of its move; the file has been moved away by
\* process_file or by move_to_unmatched; the finally clause discards the path
stab_process_done(res) ==
    /\ s_pc = "process"
    /\ s_pc' = "done"
    /\ s_in_set' = FALSE
    /\ s_out' = res
    /\ s_unm' = s_unm + 1
    /\ f_taken' = f_exists
    /\ f_exists' = FALSE
    /\ UNCHANGED <<snow, f_size, f_mtime, f_changed, s_start, last_size, last_modified,
                   s_disp_at, s_disp_age, s_disp_same, s_first_same>>
    /\ UNCHANGED notStab

\* another process writes to the file: it grows up to MaxSize and its
\* modification time is the present
fs_write ==
    /\ s_pc \in {"idle", "sleep"}
    /\ ~(f_exists /\ f_mtime = snow /\ f_size = MaxSize)
    /\ f_exists' = TRUE
    /\ f_size' = IF f_exists THEN Min(f_size + 1, MaxSize) ELSE 0
    /\ f_mtime' = snow
    /\ f_changed' = TRUE
    /\ UNCHANGED <<snow, f_taken, s_pc, s_start, last_size, last_modified, s_in_set,
                   s_disp_at, s_disp_age, s_disp_same, s_first_same>>
    /\ UNCHANGED <<s_out, s_unm>>
    /\ UNCHANGED notStab

\* another process removes the file
fs_delete ==
    /\ s_pc \in {"idle", "sleep"}
    /\ f_exists
    /\ f_exists' = FALSE
    /\ f_size' = 0
    /\ f_mtime' = 0
    /\ f_changed' = TRUE
    /\ UNCHANGED <<snow, f_taken, s_pc, s_start, last_size, last_modified, s_in_set,
                   s_disp_at, s_disp_age, s_disp_same, s_first_same>>
    /\ UNCHANGED <<s_out, s_unm>>
    /\ UNCHANGED notStab

(***************************************************************************)
(* DownloadManager (download_task.py)                                      *)
(***************************************************************************)

\* config["download"]["max_concurrent_downloads"] of the modelled run
max_concurrent_downloads == 2

\* config["download"]["max_retries"]
max_retries == 3

\* media messages handed to DownloadManager.process_media_message
Tasks == 1..max_concurrent_downloads

\* identities of worker tasks; one more than the ceiling allows to exist
Workers == 1..(max_concurrent_downloads + 1)

\* file_info.file_id of the media messages
FileIds == {"f1", "f2"}

\* the sender name under which the download manager's messages are counted
Manager == "DownloadManager"

\* positions of a worker inside the try block of _process_download
Processing == {"transfer", "verify", "stats_ok", "notify_ok", "notify_fail", "stats_fail"}

\* DownloadManager.__init__: read the configuration
download_manager_init(verify) ==
    /\ ~dl_constructed
    /\ dl_constructed' = TRUE
    /\ verify_downloads' = verify
    /\ UNCHANGED <<download_queue, active_downloads, tfid, tstatus, wpc, wtask,
                   transferred, attempts, xfail, dl_files, fail_notes>>
    /\ UNCHANGED <<unfinished_tasks, owing, td_spurious>>
    /\ UNCHANGED notDl

\* DownloadManager._ensure_workers: start max_concurrent_downloads minus
\* len(_worker_tasks) new workers
ensure_workers(wp) ==
    LET cur    == {w \in Workers : wp[w] # "none"}
        needed == max_concurrent_downloads - Cardinality(cur)
        free   == Workers \ cur
        new    == {w \in free : Cardinality({v \in free : v < w}) < needed}
    IN  [w \in Workers |-> IF w \in new THEN "get" ELSE wp[w]]

\* self.notification.notify called by the download manager: the message goes
\* out without acquire_token; notify swallows the errors of the send
manager_notify == sent_unheld' = sent_unheld \cup {Manager}

\* DownloadManager.process_media_message for a message with file_id f: create
\* the task, put it on the queue, make sure the workers run, send the status
process_media_message(t, f) ==
    /\ dl_constructed
    /\ tstatus[t] = "none"
    /\ \A u \in Tasks : u < t => tstatus[u] # "none"
    /\ tstatus' = [tstatus EXCEPT ![t] = "queued"]
    /\ tfid' = [tfid EXCEPT ![t] = f]
    /\ download_queue' = Append(download_queue, t)
    /\ wpc' = ensure_workers(wpc)
    /\ manager_notify
    /\ UNCHANGED <<dl_constructed, verify_downloads, active_downloads, wtask,
                   transferred, attempts, xfail, dl_files, fail_notes>>
    /\ unfinished_tasks' = unfinished_tasks + 1
    /\ UNCHANGED <<owing, td_spurious>>
    /\ UNCHANGED otherDl

\* _download_worker: queue.get() returns; _process_download up to the await of
\* the transfer
worker_get(w) ==
    /\ wpc[w] = "get"
    /\ download_queue # <<>>
    /\ LET t == Head(download_queue)
       IN  /\ wtask' = [wtask EXCEPT ![w] = t]
           /\ tstatus' = [tstatus EXCEPT ![t] = "downloading"]
           /\ active_downloads' = (tfid[t] :> t) @@ active_downloads
           /\ attempts' = [attempts EXCEPT ![t] = @ + 1]
           /\ dl_files' = dl_files \cup {t}
    /\ download_queue' = Tail(download_queue)
    /\ wpc' = [wpc EXCEPT ![w] = "transfer"]
    /\ UNCHANGED <<dl_constructed, verify_downloads, tfid, transferred, xfail, fail_notes>>
    /\ owing' = owing \cup {w}
    /\ UNCHANGED <<unfinished_tasks, td_spurious>>
    /\ UNCHANGED notDl

\* the outcomes of the transfer primitive and of the verification
TransferOutcomes == {"ok", "raise"}

\* the transfer (self._download_file) returns or raises; failed is the status
\* the "except Exception" clause gives the task
TransferDone(w, res, failed) ==
    /\ wpc[w] = "transfer"
    /\ transferred' = transferred \cup {wtask[w]}
    /\ IF res = "raise"
       THEN /\ tstatus' = [tstatus EXCEPT ![wtask[w]] = failed]
            /\ wpc' = [wpc EXCEPT ![w] = "notify_fail"]
            /\ xfail' = xfail \cup {wtask[w]}
       ELSE /\ UNCHANGED xfail
            /\ IF verify_downloads
               THEN /\ wpc' = [wpc EXCEPT ![w] = "verify"]
                    /\ UNCHANGED tstatus
               ELSE /\ tstatus' = [tstatus EXCEPT ![wtask[w]] = "completed"]
                    /\ wpc' = [wpc EXCEPT ![w] = "stats_ok"]
    /\ UNCHANGED <<dl_constructed, verify_downloads, download_queue, active_downloads,
                   tfid, wtask, attempts, dl_files, fail_notes>>
    /\ UNCHANGED <<unfinished_tasks, owing, td_spurious>>
    /\ UNCHANGED notDl

\* the transfer as it would end if a failed task were marked for another attempt
transfer_done_requeue(w, res) == TransferDone(w, res, "queued")

\* the transfer (self._download_file) returns or raises
transfer_done(w, res) == TransferDone(w, res, "failed")

\* self._verify_download returns or raises
verify_done(w, res) ==
    /\ wpc[w] = "verify"
    /\ IF res = "raise"
       THEN /\ tstatus' = [tstatus EXCEPT ![wtask[w]] = "failed"]
            /\ wpc' = [wpc EXCEPT ![w] = "notify_fail"]
       ELSE /\ tstatus' = [tstatus EXCEPT ![wtask[w]] = "completed"]
            /\ wpc' = [wpc EXCEPT ![w] = "stats_ok"]
    /\ UNCHANGED <<dl_constructed, verify_downloads, download_queue, active_downloads,
                   tfid, wtask, transferred, attempts, xfail, dl_files, fail_notes>>
    /\ UNCHANGED <<unfinished_tasks, owing, td_spurious>>
    /\ UNCHANGED notDl

\* stats_manager.update after "completed" returns, or raises into the
\* "except Exception" clause
stats_ok_done(w, res) ==
    /\ wpc[w] = "stats_ok"
    /\ IF res = "raise"
       THEN /\ tstatus' = [tstatus EXCEPT ![wtask[w]] = "failed"]
            /\ wpc' = [wpc EXCEPT ![w] = "notify_fail"]
       ELSE /\ wpc' = [wpc EXCEPT ![w] = "notify_ok"]
            /\ UNCHANGED tstatus
    /\ UNCHANGED <<dl_constructed, verify_downloads, download_queue, active_downloads,
                   tfid, wtask, transferred, attempts, xfail, dl_files, fail_notes>>
    /\ UNCHANGED <<unfinished_tasks, owing, td_spurious>>
    /\ UNCHANGED notDl

\* self._download_queue.task_done() in the finally clause of the worker loop:
\* asyncio.Queue.task_done raises ValueError when no task is unfinished and
\* counts one task as finished otherwise
task_done(w) ==
    /\ unfinished_tasks' = IF unfinished_tasks > 0 THEN unfinished_tasks - 1 ELSE unfinished_tasks
    /\ owing' = owing \ {w}
    /\ td_spurious' = IF w \in owing THEN td_spurious ELSE td_spurious \cup {w}

\* the finally clause of _process_download and what the worker loop does next:
\* "del self._active_downloads[task.file_id]"; when the try block ended well
\* and the key is there, task_done() and the worker waits on the queue again;
\* when the try block raised (raised) or the key is gone (KeyError) the worker
\* loop's "except Exception" reports the error
ProcessFinally(w, raised) ==
    LET f == tfid[wtask[w]]
    IN  /\ active_downloads' = [g \in DOMAIN active_downloads \ {f} |-> active_downloads[g]]
        /\ wtask' = [wtask EXCEPT ![w] = 0]
        /\ IF raised \/ f \notin DOMAIN active_downloads
           THEN /\ wpc' = [wpc EXCEPT ![w] = "worker_error"]
                /\ UNCHANGED <<unfinished_tasks, owing, td_spurious>>
           ELSE /\ wpc' = [wpc EXCEPT ![w] = "get"]
                /\ task_done(w)

\* the completion notification has returned (notify swallows its errors)
notify_ok_done(w) ==
    /\ wpc[w] = "notify_ok"
    /\ manager_notify
    /\ ProcessFinally(w, FALSE)
    /\ UNCHANGED <<dl_constructed, verify_downloads, download_queue, tfid, tstatus,
                   transferred, attempts, xfail, dl_files, fail_notes>>
    /\ UNCHANGED otherDl

\* the failure notification has returned; stats_manager.update is awaited
notify_fail_done(w) ==
    /\ wpc[w] = "notify_fail"
    /\ manager_notify
    /\ fail_notes' = [fail_notes EXCEPT ![wtask[w]] = @ + 1]
    /\ wpc' = [wpc EXCEPT ![w] = "stats_fail"]
    /\ UNCHANGED <<dl_constructed, verify_downloads, download_queue, active_downloads,
                   tfid, tstatus, wtask, transferred, attempts, xfail, dl_files>>
    /\ UNCHANGED <<unfinished_tasks, owing, td_spurious>>
    /\ UNCHANGED otherDl

\* stats_manager.update in the except clause returns, or raises out of
\* _process_download into the worker loop
stats_fail_done(w, res) ==
    /\ wpc[w] = "stats_fail"
    /\ ProcessFinally(w, res = "raise")
    /\ UNCHANGED <<dl_constructed, verify_downloads, download_queue, tfid, tstatus,
                   transferred, attempts, xfail, dl_files, fail_notes>>
    /\ UNCHANGED notDl

\* _download_worker, "except Exception": the "Download worker error" message
\* has been sent; finally task_done() and the loop goes on
worker_error_done(w) ==
    /\ wpc[w] = "worker_error"
    /\ manager_notify
    /\ wpc' = [wpc EXCEPT ![w] = "get"]
    /\ UNCHANGED <<dl_constructed, verify_downloads, download_queue, active_downloads,
                   tfid, tstatus, wtask, transferred, attempts, xfail, dl_files,
                   fail_notes>>
    /\ task_done(w)
    /\ UNCHANGED otherDl

\* the worker task is cancelled (Task.cancel(), e.g. when the event loop shuts
\* down) while it is suspended in queue.get() on the empty queue:
\* CancelledError is raised in the try block, "except asyncio.CancelledError:
\* break" leaves the loop and the finally clause calls task_done() on the way
\* out; the done callback discards the worker from _worker_tasks
worker_cancel(w) ==
    /\ wpc[w] = "get"
    /\ download_queue = <<>>
    /\ wpc' = [wpc EXCEPT ![w] = "none"]
    /\ task_done(w)
    /\ UNCHANGED <<dl_constructed, verify_downloads, download_queue, active_downloads,
                   tfid, tstatus, wtask, transferred, attempts, xfail, dl_files,
                   fail_notes>>
    /\ UNCHANGED notDl

\* position of a status on the way queued, downloading, terminal
StatusRank(st) ==
    IF st = "none" THEN 0
    ELSE IF st = "queued" THEN 1
    ELSE IF st = "downloading" THEN 2
    ELSE 3

\* C27: a task's status only moves forward along queued, downloading,
\* terminal: no task is set back to queued after it has been downloading, and
\* none goes from a terminal status back to downloading.
C27_StatusMonotonic ==
    [][\A t \in Tasks : StatusRank(tstatus'[t]) >= StatusRank(tstatus[t])]_vars

\* a task has gone from queued through downloading to failed, another to
\* completed
C27_Witness ==
    \E t, u \in Tasks :
        /\ tstatus[t] = "failed" /\ t \in xfail /\ attempts[t] = 1
        /\ tstatus[u] = "completed" /\ attempts[u] = 1

(***************************************************************************)
(* TelegramDownloader (bot.py)                                             *)
(***************************************************************************)

\* media messages received by TelegramDownloader
Msgs == 1..(max_concurrent_downloads + 1)

\* event.file.name of the media messages
Names == {"x.mp4", "y.mp4"}

\* the messages whose download_media call writes into the file that is linked
\* at place pl ("temp": temp_path, "final": final_path) under name n
Writers(n, pl) == {m \in Msgs : bname[m] = n /\ bopen[m] = pl}

\* TelegramDownloader.handle_new_message -> _process_media for a message with
\* file name n, up to the await of the first notification: "File already
\* exists" when final_path exists, "Starting Download" otherwise
bot_process_media(m, n) ==
    /\ bpc[m] = "none"
    /\ \A u \in Msgs : u < m => bpc[u] # "none"
    /\ connected
    /\ ~bstopping
    /\ bname' = [bname EXCEPT ![m] = n]
    /\ bpc' = [bpc EXCEPT ![m] = IF n \in final_files THEN "exists_notify" ELSE "announce"]
    /\ UNCHANGED <<bot_active, temp_files, final_files, bopen, bstopping, bstop,
                   bgather, connected>>
    /\ UNCHANGED notBot

\* the "File already exists" notification has returned: _process_media returns
bot_exists_done(m) ==
    /\ bpc[m] = "exists_notify"
    /\ bpc' = [bpc EXCEPT ![m] = "skipped"]
    /\ UNCHANGED <<bname, bot_active, temp_files, final_files, bopen, bstopping, bstop,
                   bgather, connected>>
    /\ UNCHANGED notBot

\* _process_media lines 136-138: create_task(_download_file), add it to
\* _active_downloads; download_media opens temp_path for writing
bot_start_download(m) ==
    /\ bpc[m] = "announce"
    /\ bpc' = [bpc EXCEPT ![m] = "transfer"]
    /\ bot_active' = bot_active \cup {m}
    /\ temp_files' = temp_files \cup {bname[m]}
    /\ bopen' = [bopen EXCEPT ![m] = "temp"]
    /\ UNCHANGED <<bname, final_files, bstopping, bstop, bgather, connected>>
    /\ UNCHANGED notBot

\* download_media returns and os.rename(temp_path, final_path) runs, or one of
\* them raises into "except Exception"
bot_transfer_done(m, res) ==
    /\ bpc[m] = "transfer"
    /\ res = "ok" => connected
    /\ LET n == bname[m]
       IN  IF res = "ok" /\ n \in temp_files
           THEN \* the file at temp_path, with whoever still writes into it,
                \* is now at final_path
                /\ temp_files' = temp_files \ {n}
                /\ final_files' = final_files \cup {n}
                /\ bopen' = [u \in Msgs |->
                               IF u = m THEN "none"
                               ELSE IF u \in Writers(n, "temp") THEN "final"
                               ELSE bopen[u]]
                /\ bpc' = [bpc EXCEPT ![m] = "complete_notify"]
           ELSE \* the download raised, or os.rename found no file at temp_path
                /\ bopen' = [bopen EXCEPT ![m] = "none"]
                /\ bpc' = [bpc EXCEPT ![m] = "fail_notify"]
                /\ UNCHANGED <<temp_files, final_files>>
    /\ UNCHANGED <<bname, bot_active, bstopping, bstop, bgather, connected>>
    /\ UNCHANGED notBot

\* the "Download Complete" notification has returned; release_token (line
\* 206); the task is done and the done callback discards it
bot_complete_done(m) ==
    /\ bpc[m] = "complete_notify"
    /\ bpc' = [bpc EXCEPT ![m] = "done"]
    /\ bot_active' = bot_active \ {m}
    /\ UNCHANGED <<bname, temp_files, final_files, bopen, bstopping, bstop, bgather,
                   connected>>
    /\ UNCHANGED notBot

\* the "Download Failed" notification has returned; temp_path is removed when
\* it exists; the task is done and the done callback discards it
bot_fail_done(m) ==
    /\ bpc[m] = "fail_notify"
    /\ bpc' = [bpc EXCEPT ![m] = "done"]
    /\ bot_active' = bot_active \ {m}
    /\ temp_files' = temp_files \ {bname[m]}
    /\ bopen' = [u \in Msgs |->
                   IF u \in Writers(bname[m], "temp") THEN "unlinked" ELSE bopen[u]]
    /\ UNCHANGED <<bname, final_files, bstopping, bstop, bgather, connected>>
    /\ UNCHANGED notBot

\* TelegramDownloader.stop up to its first await: the "Waiting for downloads"
\* notification when downloads are active, client.disconnect() otherwise
bot_stop_begin ==
    /\ bstop = "idle"
    /\ bstopping' = TRUE
    /\ bstop' = IF bot_active # {} THEN "notify" ELSE "disconnect"
    /\ UNCHANGED <<bpc, bname, bot_active, temp_files, final_files, bopen, bgather,
                   connected>>
    /\ UNCHANGED notBot

\* stop: the notification has returned; asyncio.gather(*self._active_downloads)
\* is called with the downloads that are active now
bot_stop_gather ==
    /\ bstop = "notify"
    /\ bgather' = bot_active
    /\ bstop' = "gather"
    /\ UNCHANGED <<bpc, bname, bot_active, temp_files, final_files, bopen, bstopping,
                   connected>>
    /\ UNCHANGED notBot

\* stop: every gathered download is done; client.disconnect() is awaited
bot_stop_gathered ==
    /\ bstop = "gather"
    /\ bgather \cap bot_active = {}
    /\ bgather' = {}
    /\ bstop' = "disconnect"
    /\ UNCHANGED <<bpc, bname, bot_active, temp_files, final_files, bopen, bstopping,
                   connected>>
    /\ UNCHANGED notBot

\* stop: the client is disconnected; the "stopped" notification is awaited
bot_stop_disconnect ==
    /\ bstop = "disconnect"
    /\ connected' = FALSE
    /\ bstop' = "stopped_notify"
    /\ UNCHANGED <<bpc, bname, bot_active, temp_files, final_files, bopen, bstopping,
                   bgather>>
    /\ UNCHANGED notBot

\* stop returns
bot_stop_return ==
    /\ bstop = "stopped_notify"
    /\ bstop' = "returned"
    /\ UNCHANGED <<bpc, bname, bot_active, temp_files, final_files, bopen, bstopping,
                   bgather, connected>>
    /\ UNCHANGED notBot

(***************************************************************************)
(* Update-rate limiters: AsyncRateLimiter, ThreadedRateLimiter             *)
(* (common/rate_limiters.py) and RateLimiter (telegram_downloader_bot.py)  *)
(***************************************************************************)

\* min_interval of the limiter, in clock units
MinInterval == 2

\* clock units the model follows the limiter for
Horizon == 2

\* concurrent callers of the limiter
MaxCallers == 2

\* time.time() at the first call: seconds since the epoch, far more than one
\* interval
StartTime == 10 * MinInterval

Kinds == {"AsyncRateLimiter", "ThreadedRateLimiter", "RateLimiter"}

Keys == {"k1", "k2"}

Callers == 1..MaxCallers

\* value of cu_gap and w_gap while fewer than two timestamps were seen; the
\* gaps are measured up to MinInterval
NoGap == MinInterval + 1

\* __init__ of one of the three limiter classes
limiter_init(kind) ==
    /\ lim_kind = "none"
    /\ lim_kind' = kind
    /\ UNCHANGED <<now, last_update, lim_lock, cpc, ckey, cwake, cu_last, cu_gap,
                   cu_denied, first_cu, w_last, w_gap>>
    /\ UNCHANGED notLim

\* can_update and wait_if_needed of ThreadedRateLimiter and RateLimiter run
\* under the limiter's lock; those of AsyncRateLimiter never take self._lock
UsesLock == lim_kind # "AsyncRateLimiter"

\* the gap history of key k after a timestamp t that follows the ones in last
Gap(gap, last, k, t) ==
    IF k \in DOMAIN last
    THEN [gap EXCEPT ![k] = Min(@, Min(t - last[k], MinInterval))]
    ELSE gap

\* self._last_update[key] of a defaultdict(float)
LastOf(k) == IF k \in DOMAIN last_update THEN last_update[k] ELSE 0

\* self._last_update[key] = time.time()
RecordNow(k) == (k :> now) @@ last_update

\* the test of can_update
Allowed(k) ==
    IF lim_kind = "RateLimiter"
    THEN k \notin DOMAIN last_update \/ now - last_update[k] >= MinInterval
    ELSE now - LastOf(k) >= MinInterval

\* the test of wait_if_needed
MustWait(k) ==
    IF lim_kind = "RateLimiter"
    THEN k \in DOMAIN last_update /\ now - last_update[k] < MinInterval
    ELSE now - LastOf(k) < MinInterval

\* no call was made for key k yet
Fresh(k) == k \notin DOMAIN last_update /\ first_cu[k] = "none"

\* can_update(key), from reading the clock to the return; record: a True
\* result stores the clock value, touch: a False result stores it as well
CanUpdate(c, k, record, touch) ==
    /\ lim_kind \in Kinds
    /\ cpc[c] = "idle"
    /\ UsesLock => lim_lock = 0
    /\ IF Allowed(k)
       THEN /\ last_update' = IF record THEN RecordNow(k) ELSE last_update
            /\ cu_last' = (k :> now) @@ cu_last
            /\ cu_gap' = Gap(cu_gap, cu_last, k, now)
            /\ UNCHANGED cu_denied
       ELSE /\ cu_denied' = [cu_denied EXCEPT ![k] = TRUE]
            /\ last_update' = IF touch THEN RecordNow(k) ELSE last_update
            /\ UNCHANGED <<cu_last, cu_gap>>
    /\ first_cu' = IF Fresh(k)
                   THEN [first_cu EXCEPT ![k] = IF Allowed(k) THEN "true" ELSE "false"]
                   ELSE first_cu
    /\ UNCHANGED <<lim_kind, now, lim_lock, cpc, ckey, cwake, w_last, w_gap>>
    /\ UNCHANGED notLim

\* can_update as it would be without storing the new timestamp
can_update_norecord(c, k) == CanUpdate(c, k, FALSE, FALSE)

\* can_update as it would be if a denied call stored its time as well
can_update_touch(c, k) == CanUpdate(c, k, TRUE, TRUE)

\* can_update(key) of the three limiter classes
can_update(c, k) == CanUpdate(c, k, TRUE, FALSE)

\* the body of wait_if_needed(key) for caller c once the limiter's lock, if the
\* class has one, is taken: up to the sleep, or to the return when no sleep is
\* needed
WaitBody(c, k) ==
    /\ IF MustWait(k)
       THEN /\ cpc' = [cpc EXCEPT ![c] = "sleep"]
            /\ ckey' = [ckey EXCEPT ![c] = k]
            /\ cwake' = [cwake EXCEPT ![c] = now + (MinInterval - (now - LastOf(k)))]
            /\ lim_lock' = IF UsesLock THEN c ELSE lim_lock
            /\ UNCHANGED <<last_update, w_last, w_gap>>
       ELSE /\ last_update' = RecordNow(k)
            /\ w_last' = (k :> now) @@ w_last
            /\ w_gap' = Gap(w_gap, w_last, k, now)
            /\ cpc' = [cpc EXCEPT ![c] = "idle"]
            /\ ckey' = [ckey EXCEPT ![c] = "k1"]
            /\ UNCHANGED <<cwake, lim_lock>>
    /\ UNCHANGED <<lim_kind, now, cu_last, cu_gap, cu_denied, first_cu>>
    /\ UNCHANGED notLim

\* wait_if_needed(key) called while the lock is free
wait_if_needed(c, k) ==
    /\ lim_kind \in Kinds
    /\ cpc[c] = "idle"
    /\ UsesLock => lim_lock = 0
    /\ WaitBody(c, k)

\* wait_if_needed(key) called while another caller sleeps inside the lock:
\* the caller blocks at "with self._lock"
wait_blocked(c, k) ==
    /\ lim_kind \in Kinds
    /\ cpc[c] = "idle"
    /\ UsesLock
    /\ lim_lock # 0
    /\ cpc' = [cpc EXCEPT ![c] = "lock"]
    /\ ckey' = [ckey EXCEPT ![c] = k]
    /\ UNCHANGED <<lim_kind, now, last_update, lim_lock, cwake, cu_last, cu_gap,
                   cu_denied, first_cu, w_last, w_gap>>
    /\ UNCHANGED notLim

\* the lock was released and a blocked caller takes it
wait_lock_acquired(c) ==
    /\ cpc[c] = "lock"
    /\ lim_lock = 0
    /\ WaitBody(c, ckey[c])

\* the sleep of wait_if_needed is over: record time.time() and return
wait_wakeup(c) ==
    /\ cpc[c] = "sleep"
    /\ now >= cwake[c]
    /\ last_update' = RecordNow(ckey[c])
    /\ w_last' = (ckey[c] :> now) @@ w_last
    /\ w_gap' = Gap(w_gap, w_last, ckey[c], now)
    /\ lim_lock' = IF UsesLock THEN 0 ELSE lim_lock
    /\ cpc' = [cpc EXCEPT ![c] = "idle"]
    /\ ckey' = [ckey EXCEPT ![c] = "k1"]
    /\ cwake' = [cwake EXCEPT ![c] = 0]
    /\ UNCHANGED <<lim_kind, now, cu_last, cu_gap, cu_denied, first_cu>>
    /\ UNCHANGED notLim

\* the clock advances
LimTick ==
    /\ lim_kind \in Kinds
    /\ now < StartTime + Horizon
    /\ now' = now + 1
    /\ UNCHANGED <<lim_kind, last_update, lim_lock, cpc, ckey, cwake, cu_last, cu_gap,
                   cu_denied, first_cu, w_last, w_gap>>
    /\ UNCHANGED notLim

(***************************************************************************)
(* Byte-rate limiter: SpeedLimiter (common/rate_limiters.py); sizes are    *)
(* counted in units of the bytes the ceiling allows per tick               *)
(***************************************************************************)

\* ticks per second: the window of _reset_if_needed is 1.0 s
TicksPerSecond == 4

\* limit calls the model follows
MaxChunks == 5

\* the largest chunk, in units
MaxChunkSize == 2

\* ticks the model follows the limiter for
SpeedHorizon == 7

\* time.time() when the model starts
SpeedStart == 2 * TicksPerSecond

\* max_speed_mbps: None, 0 or a ceiling
Ceilings == {"None", "zero", "limited"}

ChunkSizes == 1..MaxChunkSize

SpeedCallers == 1..2

Max(a, b) == IF a > b THEN a ELSE b

\* "if not self.max_speed_mbps"
NoCeiling == sl_max \in {"None", "zero"}

\* SpeedLimiter.__init__
speed_init(m) ==
    /\ sl_max = "unset"
    /\ sl_max' = m
    /\ sl_bytes' = 0
    /\ sl_reset' = sl_now
    /\ UNCHANGED <<sl_now, sl_lock, sl_pc, sl_chunk, sl_wake, sl_acq, sl_n, sl_total,
                   sl_maxchunk, sl_equal, sl_first, sl_b2b, sl_done_at, sl_before,
                   sl_slept, sl_ret_elapsed>>
    /\ UNCHANGED notSpeed

\* _reset_if_needed: the counter and the timestamp it leaves
ResetBytes == IF sl_now - sl_reset > TicksPerSecond THEN 0 ELSE sl_bytes

ResetStamp == IF sl_now - sl_reset > TicksPerSecond THEN sl_now ELSE sl_reset

\* _get_delay without the wait for the bytes already counted
get_delay_short(bytes, elapsed) ==
    IF bytes = 0 THEN 0 ELSE Max(0, bytes - elapsed - 1)

\* _get_delay after _reset_if_needed, with a ceiling: target_time - elapsed
get_delay(bytes, elapsed) ==
    IF bytes = 0 THEN 0 ELSE Max(0, bytes - elapsed)

\* a limit call of n bytes is counted
CallHist(n) ==
    /\ sl_n' = sl_n + 1
    /\ sl_total' = sl_total + n
    /\ sl_maxchunk' = Max(sl_maxchunk, n)
    /\ sl_equal' = IF sl_equal \in {0, n} THEN n ELSE 0 - 1
    /\ sl_first' = IF sl_first < 0 THEN sl_now ELSE sl_first

\* the body of limit under the lock for caller c and a chunk of n bytes, up to
\* the sleep or, without a delay, to the return
LimitBody(c, n) ==
    IF NoCeiling
    THEN \* _get_delay returns 0.0 before it looks at the window
         /\ sl_bytes' = sl_bytes + n
         /\ sl_pc' = [sl_pc EXCEPT ![c] = "idle"]
         /\ sl_done_at' = sl_now
         /\ sl_before' = sl_bytes
         /\ sl_slept' = 0
         /\ sl_ret_elapsed' = sl_now - sl_reset
         /\ UNCHANGED <<sl_reset, sl_lock, sl_chunk, sl_wake, sl_acq>>
    ELSE /\ sl_reset' = ResetStamp
         /\ IF get_delay(ResetBytes, sl_now - ResetStamp) > 0
            THEN /\ sl_bytes' = ResetBytes
                 /\ sl_lock' = c
                 /\ sl_pc' = [sl_pc EXCEPT ![c] = "sleep"]
                 /\ sl_chunk' = [sl_chunk EXCEPT ![c] = n]
                 /\ sl_wake' = [sl_wake EXCEPT ![c] =
                                  sl_now + get_delay(ResetBytes, sl_now - ResetStamp)]
                 /\ sl_acq' = [sl_acq EXCEPT ![c] = sl_now]
                 /\ UNCHANGED <<sl_done_at, sl_before, sl_slept, sl_ret_elapsed>>
            ELSE /\ sl_bytes' = ResetBytes + n
                 /\ sl_pc' = [sl_pc EXCEPT ![c] = "idle"]
                 /\ sl_chunk' = [sl_chunk EXCEPT ![c] = 0]
                 /\ sl_done_at' = sl_now
                 /\ sl_before' = ResetBytes
                 /\ sl_slept' = 0
                 /\ sl_ret_elapsed' = sl_now - ResetStamp
                 /\ UNCHANGED <<sl_lock, sl_wake, sl_acq>>

\* limit(chunk_size) from the call to the lock, the sleep or the return; guarded
\* tells whether the test for a missing ceiling at the top of limit is made,
\* locked whether the body waits for self._lock
LimitCall(c, n, guarded, locked) ==
    /\ sl_max # "unset"
    /\ sl_pc[c] = "idle"
    /\ sl_n < MaxChunks
    /\ CallHist(n)
    /\ IF guarded /\ NoCeiling
       THEN /\ sl_done_at' = sl_now
            /\ sl_slept' = 0
            /\ UNCHANGED <<sl_bytes, sl_reset, sl_lock, sl_pc, sl_chunk, sl_wake, sl_acq,
                           sl_before, sl_ret_elapsed>>
       ELSE IF locked /\ sl_lock # 0
            THEN /\ sl_pc' = [sl_pc EXCEPT ![c] = "lock"]
                 /\ sl_chunk' = [sl_chunk EXCEPT ![c] = n]
                 /\ UNCHANGED <<sl_bytes, sl_reset, sl_lock, sl_wake, sl_acq, sl_done_at,
                                sl_before, sl_slept, sl_ret_elapsed>>
            ELSE LimitBody(c, n)
    /\ UNCHANGED <<sl_max, sl_now, sl_b2b>>
    /\ UNCHANGED notSpeed

\* limit without its test for a missing ceiling
limit_noguard(c, n) == LimitCall(c, n, FALSE, TRUE)

\* limit without "async with self._lock"
limit_nolock(c, n) == LimitCall(c, n, TRUE, FALSE)

\* SpeedLimiter.limit(chunk_size)
limit(c, n) == LimitCall(c, n, TRUE, TRUE)

\* "async with self._lock" of a caller that found the lock taken
limit_lock_acquired(c) ==
    /\ sl_pc[c] = "lock"
    /\ sl_lock = 0
    /\ LimitBody(c, sl_chunk[c])
    /\ UNCHANGED <<sl_max, sl_now, sl_b2b, sl_n, sl_total, sl_maxchunk, sl_equal, sl_first>>
    /\ UNCHANGED notSpeed

\* asyncio.sleep(delay) is over: count the chunk, release the lock, return
limit_wake(c) ==
    /\ sl_pc[c] = "sleep"
    /\ sl_now >= sl_wake[c]
    /\ sl_bytes' = sl_bytes + sl_chunk[c]
    /\ sl_lock' = 0
    /\ sl_pc' = [sl_pc EXCEPT ![c] = "idle"]
    /\ sl_chunk' = [sl_chunk EXCEPT ![c] = 0]
    /\ sl_wake' = [sl_wake EXCEPT ![c] = 0]
    /\ sl_acq' = [sl_acq EXCEPT ![c] = 0]
    /\ sl_done_at' = sl_now
    /\ sl_before' = sl_bytes
    /\ sl_slept' = sl_now - sl_acq[c]
    /\ sl_ret_elapsed' = sl_now - sl_reset
    /\ UNCHANGED <<sl_max, sl_reset, sl_now, sl_n, sl_total, sl_maxchunk, sl_equal,
                   sl_first, sl_b2b>>
    /\ UNCHANGED notSpeed

\* the clock advances
SpeedTick ==
    /\ sl_max # "unset"
    /\ sl_now < SpeedStart + SpeedHorizon
    /\ sl_now' = sl_now + 1
    /\ sl_b2b' = IF sl_n = 0 \/ \E c \in SpeedCallers : sl_pc[c] = "sleep" /\ sl_now < sl_wake[c]
                 THEN sl_b2b
                 ELSE FALSE
    /\ UNCHANGED <<sl_max, sl_bytes, sl_reset, sl_lock, sl_pc, sl_chunk, sl_wake, sl_acq,
                   sl_n, sl_total, sl_maxchunk, sl_equal, sl_first, sl_done_at, sl_before,
                   sl_slept, sl_ret_elapsed>>
    /\ UNCHANGED notSpeed

(***************************************************************************)
(* Replies: NotificationService.notify(wait_response=True),                *)
(* _handle_message_response and wait_for_response                          *)
(***************************************************************************)

\* response_timeout of notify, in seconds
response_timeout == 300

\* seconds that pass in one step of the clock of the waits
ReplyStep == 150

\* concurrent notify(wait_response=True) calls; each sends its own message
Notifiers == {"n1", "n2"}

\* notify up to the await of bot.send_message
notify_send(c) ==
    /\ rpc[c] = "idle"
    /\ rpc' = [rpc EXCEPT ![c] = "sending"]
    /\ UNCHANGED <<rreg, rfut, rreply, rwaited, rret, r_sent, r_intime>>
    /\ UNCHANGED notReply

\* bot.send_message returns the sent message: wait_for_response creates the
\* future, stores it under the message_id and awaits it; or send_message
\* raises and notify returns None from its except clause
send_message_done(c, res) ==
    /\ rpc[c] = "sending"
    /\ IF res = "ok"
       THEN /\ rpc' = [rpc EXCEPT ![c] = "waiting"]
            /\ rreg' = rreg \cup {c}
            /\ r_sent' = [r_sent EXCEPT ![c] = TRUE]
            /\ UNCHANGED rret
       ELSE /\ rpc' = [rpc EXCEPT ![c] = "returned"]
            /\ rret' = [rret EXCEPT ![c] = "None"]
            /\ UNCHANGED <<rreg, r_sent>>
    /\ UNCHANGED <<rfut, rreply, rwaited, r_intime>>
    /\ UNCHANGED notReply

\* the user replies to the message, which is in the chat from some point of
\* the send call on
user_reply(c) ==
    /\ rpc[c] \in {"sending", "waiting"}
    /\ rreply[c] = "none"
    /\ rreply' = [rreply EXCEPT ![c] = "arrived"]
    /\ UNCHANGED <<rpc, rreg, rfut, rwaited, rret, r_sent, r_intime>>
    /\ UNCHANGED notReply

\* _handle_message_response for the update with the reply: the future of the
\* replied message gets the text when there is one that is not done
handle_message_response(c) ==
    /\ rreply[c] = "arrived"
    /\ rreply' = [rreply EXCEPT ![c] = "handled"]
    /\ rfut' = IF c \in rreg /\ rfut[c] = "pending"
               THEN [rfut EXCEPT ![c] = "text"]
               ELSE rfut
    /\ r_intime' = [r_intime EXCEPT ![c] =
                      \/ rpc[c] = "sending"
                      \/ rpc[c] = "waiting" /\ rwaited[c] < response_timeout]
    /\ UNCHANGED <<rpc, rreg, rwaited, rret, r_sent>>
    /\ UNCHANGED notReply

\* wait_for_response: the future is done; its result is returned and the
\* finally clause pops the message_id
wait_for_response_done(c) ==
    /\ rpc[c] = "waiting"
    /\ rfut[c] = "text"
    /\ rpc' = [rpc EXCEPT ![c] = "returned"]
    /\ rret' = [rret EXCEPT ![c] = "text"]
    /\ rreg' = rreg \ {c}
    /\ UNCHANGED <<rfut, rreply, rwaited, r_sent, r_intime>>
    /\ UNCHANGED notReply

\* wait_for_response: asyncio.TimeoutError after response_timeout; None is
\* returned and the finally clause pops the message_id
wait_for_response_timeout(c) ==
    /\ rpc[c] = "waiting"
    /\ rfut[c] = "pending"
    /\ rwaited[c] >= response_timeout
    /\ rpc' = [rpc EXCEPT ![c] = "returned"]
    /\ rret' = [rret EXCEPT ![c] = "None"]
    /\ rreg' = rreg \ {c}
    /\ UNCHANGED <<rfut, rreply, rwaited, r_sent, r_intime>>
    /\ UNCHANGED notReply

\* time passes for the callers inside asyncio.wait_for
ReplyTick ==
    /\ \E c \in Notifiers : rpc[c] = "waiting" /\ rwaited[c] < response_timeout
    /\ rwaited' = [c \in Notifiers |->
                     IF rpc[c] = "waiting"
                     THEN Min(rwaited[c] + ReplyStep, response_timeout)
                     ELSE rwaited[c]]
    /\ UNCHANGED <<rpc, rreg, rfut, rreply, rret, r_sent, r_intime>>
    /\ UNCHANGED notReply

(***************************************************************************)
(* StatsManager (rate_limiters.py): increment from several threads         *)
(***************************************************************************)

\* increment calls one thread makes
MaxIncrements == 2

\* the threads that call increment on the same category and metric
StatThreads == 1..3

\* the values passed to increment
IncValues == {1, 2}

\* a thread calls increment(category, metric, v)
increment_call(t, v) ==
    /\ st_pc[t] = "idle"
    /\ st_calls[t] < MaxIncrements
    /\ st_pc' = [st_pc EXCEPT ![t] = "call"]
    /\ st_arg' = [st_arg EXCEPT ![t] = v]
    /\ st_sum' = st_sum + v
    /\ st_overlap' = (st_overlap \/ \E u \in StatThreads \ {t} : st_pc[u] # "idle")
    /\ UNCHANGED <<st_lock, st_val, st_tmp, st_calls>>
    /\ UNCHANGED notStats

\* entering the body of increment; with the lock: 'with self._lock'
IncrementEnter(t, locked) ==
    /\ st_pc[t] = "call"
    /\ IF locked
       THEN st_lock = 0 /\ st_lock' = t
       ELSE UNCHANGED st_lock
    /\ st_pc' = [st_pc EXCEPT ![t] = "load"]
    /\ UNCHANGED <<st_val, st_arg, st_tmp, st_calls, st_sum, st_overlap>>
    /\ UNCHANGED notStats

increment_unlocked(t) == IncrementEnter(t, FALSE)
increment(t) == IncrementEnter(t, TRUE)

\* self._stats[category][metric] += value: the read of the old value
increment_load(t) ==
    /\ st_pc[t] = "load"
    /\ st_tmp' = [st_tmp EXCEPT ![t] = st_val]
    /\ st_pc' = [st_pc EXCEPT ![t] = "store"]
    /\ UNCHANGED <<st_lock, st_val, st_arg, st_calls, st_sum, st_overlap>>
    /\ UNCHANGED notStats

\* self._stats[category][metric] += value: the write of the sum; the with
\* block ends, the lock is released and increment returns
increment_store(t) ==
    /\ st_pc[t] = "store"
    /\ st_val' = st_tmp[t] + st_arg[t]
    /\ st_lock' = IF st_lock = t THEN 0 ELSE st_lock
    /\ st_pc' = [st_pc EXCEPT ![t] = "idle"]
    /\ st_tmp' = [st_tmp EXCEPT ![t] = 0]
    /\ st_arg' = [st_arg EXCEPT ![t] = 0]
    /\ st_calls' = [st_calls EXCEPT ![t] = st_calls[t] + 1]
    /\ UNCHANGED <<st_sum, st_overlap>>
    /\ UNCHANGED notStats

(***************************************************************************)
(* Questions: ensure_token_and_notify(wait_response=True) next to the      *)
(* update-poll loop (notification_service.py)                              *)
(***************************************************************************)

\* the services that ask a question
Askers == {"MediaCategorizer", "MediaManager"}

\* the parties that can hold _token_lock in this scenario
AskPoll == "poll"

\* ensure_token_and_notify: acquire_token returns True; notify runs up to the
\* await of bot.send_message
ask_acquire(c) ==
    /\ a_pc[c] = "idle"
    /\ a_lock = "none"
    /\ a_lock' = c
    /\ a_pc' = [a_pc EXCEPT ![c] = "sending"]
    /\ UNCHANGED <<a_poll, a_reply, a_fut, a_reg, a_waited, a_ret, a_intime>>
    /\ UNCHANGED notAsk

\* ensure_token_and_notify: the lock stayed taken and acquire_token returned
\* False after its timeout: nothing is sent and None is returned
ask_acquire_timeout(c) ==
    /\ a_pc[c] = "idle"
    /\ a_lock # "none"
    /\ a_pc' = [a_pc EXCEPT ![c] = "returned"]
    /\ a_ret' = [a_ret EXCEPT ![c] = "None"]
    /\ UNCHANGED <<a_lock, a_poll, a_reply, a_fut, a_reg, a_waited, a_intime>>
    /\ UNCHANGED notAsk

\* bot.send_message returns: wait_for_response registers the future and awaits
\* it, the caller still holding the token; or send_message raises, notify
\* returns None and the finally clause releases the token
ask_send_done(c, res) ==
    /\ a_pc[c] = "sending"
    /\ IF res = "ok"
       THEN /\ a_pc' = [a_pc EXCEPT ![c] = "waiting"]
            /\ a_reg' = a_reg \cup {c}
            /\ UNCHANGED <<a_lock, a_ret>>
       ELSE /\ a_pc' = [a_pc EXCEPT ![c] = "returned"]
            /\ a_ret' = [a_ret EXCEPT ![c] = "None"]
            /\ a_lock' = "none"
            /\ UNCHANGED a_reg
    /\ UNCHANGED <<a_poll, a_reply, a_fut, a_waited, a_intime>>
    /\ UNCHANGED notAsk

\* the user replies to the caller's message: the update waits at Telegram
\* until get_updates fetches it
ask_user_reply(c) ==
    /\ a_pc[c] \in {"sending", "waiting"}
    /\ a_reply[c] = "none"
    /\ a_reply' = [a_reply EXCEPT ![c] = "sent"]
    /\ a_intime' = [a_intime EXCEPT ![c] =
                      a_pc[c] = "waiting" /\ a_waited[c] < response_timeout]
    /\ UNCHANGED <<a_lock, a_pc, a_poll, a_fut, a_reg, a_waited, a_ret>>
    /\ UNCHANGED notAsk

\* wait_for_response: the future is done; the reply text is returned and the
\* finally clauses pop the message_id and release the token
ask_wait_done(c) ==
    /\ a_pc[c] = "waiting"
    /\ a_fut[c] = "text"
    /\ a_pc' = [a_pc EXCEPT ![c] = "returned"]
    /\ a_ret' = [a_ret EXCEPT ![c] = "text"]
    /\ a_reg' = a_reg \ {c}
    /\ a_lock' = "none"
    /\ UNCHANGED <<a_poll, a_reply, a_fut, a_waited, a_intime>>
    /\ UNCHANGED notAsk

\* wait_for_response: asyncio.TimeoutError after response_timeout; None is
\* returned and the finally clauses pop the message_id and release the token
ask_wait_timeout(c) ==
    /\ a_pc[c] = "waiting"
    /\ a_fut[c] = "pending"
    /\ a_waited[c] >= response_timeout
    /\ a_pc' = [a_pc EXCEPT ![c] = "returned"]
    /\ a_ret' = [a_ret EXCEPT ![c] = "None"]
    /\ a_reg' = a_reg \ {c}
    /\ a_lock' = "none"
    /\ UNCHANGED <<a_poll, a_reply, a_fut, a_waited, a_intime>>
    /\ UNCHANGED notAsk

\* _poll_updates: "async with self._token_lock" succeeds and get_updates is
\* awaited
poll_acquire ==
    /\ a_poll = "idle"
    /\ a_lock = "none"
    /\ a_lock' = AskPoll
    /\ a_poll' = "get_updates"
    /\ UNCHANGED <<a_pc, a_reply, a_fut, a_reg, a_waited, a_ret, a_intime>>
    /\ UNCHANGED notAsk

\* _poll_updates: get_updates returns the replies that wait at Telegram;
\* process_update runs _handle_message_response for each of them, which
\* resolves the future of a registered message; the lock is released and the
\* loop sleeps
poll_get_updates_done ==
    /\ a_poll = "get_updates"
    /\ a_reply' = [c \in Askers |-> IF a_reply[c] = "sent" THEN "handled" ELSE a_reply[c]]
    /\ a_fut' = [c \in Askers |->
                   IF a_reply[c] = "sent" /\ c \in a_reg /\ a_fut[c] = "pending"
                   THEN "text" ELSE a_fut[c]]
    /\ a_lock' = "none"
    /\ a_poll' = "sleep"
    /\ UNCHANGED <<a_pc, a_reg, a_waited, a_ret, a_intime>>
    /\ UNCHANGED notAsk

\* _poll_updates: asyncio.sleep(1) is over
poll_sleep_done ==
    /\ a_poll = "sleep"
    /\ a_poll' = "idle"
    /\ UNCHANGED <<a_lock, a_pc, a_reply, a_fut, a_reg, a_waited, a_ret, a_intime>>
    /\ UNCHANGED notAsk

\* release_token("TelegramDownloader") at the end of _download_file, after
\* ensure_token_and_notify has released already: release_token frees the lock
\* whenever it is locked, whoever holds it
downloader_release ==
    /\ a_lock # "none"
    /\ a_lock' = "none"
    /\ UNCHANGED <<a_pc, a_poll, a_reply, a_fut, a_reg, a_waited, a_ret, a_intime>>
    /\ UNCHANGED notAsk

\* time passes for the callers inside asyncio.wait_for
AskTick ==
    /\ \E c \in Askers : a_pc[c] = "waiting" /\ a_waited[c] < response_timeout
    /\ a_waited' = [c \in Askers |->
                      IF a_pc[c] = "waiting"
                      THEN Min(a_waited[c] + ReplyStep, response_timeout)
                      ELSE a_waited[c]]
    /\ UNCHANGED <<a_lock, a_pc, a_poll, a_reply, a_fut, a_reg, a_ret, a_intime>>
    /\ UNCHANGED notAsk

(***************************************************************************)
(* Progress notifications of one download: progress_callback of            *)
(* TelegramDownloader._download_file (bot.py)                              *)
(***************************************************************************)

\* "progress >= last_progress + 5"
ProgressStep == 5

\* "current_time - last_notification_time >= 30"
ProgressInterval == 30

\* the loop clock when the download starts
ProgStart == 40

\* seconds that pass in one step of the loop clock
ProgTickStep == 10

\* how long the download is followed, in seconds
ProgHorizon == 60

\* the percentage up to which the download is followed
MaxPercent == 12

\* percentage points received between two progress_callback calls
PercentSteps == {1, 5}

\* download_media calls progress_callback with d more points received: the
\* callback up to its await of ensure_token_and_notify, or all of it when
\* neither threshold is reached
progress_callback(d) ==
    /\ p_pc = "download"
    /\ p_received + d <= MaxPercent
    /\ p_received' = p_received + d
    /\ IF \/ p_received + d >= last_progress + ProgressStep
          \/ p_now - last_notification_time >= ProgressInterval
       THEN /\ p_pc' = "notify"
            /\ cb_time' = p_now
            /\ cb_progress' = p_received + d
       ELSE UNCHANGED <<p_pc, cb_time, cb_progress>>
    /\ UNCHANGED <<p_now, last_progress, last_notification_time, p_sent_prog, p_sent_at>>
    /\ UNCHANGED notProg

\* ensure_token_and_notify returns to progress_callback: the message was sent
\* once the token was acquired, or it was dropped after the 30 s of
\* acquire_token; last_progress and last_notification_time are assigned
progress_notify_done(res) ==
    /\ p_pc = "notify"
    /\ IF res = "sent"
       THEN /\ p_sent_prog' = cb_progress
            /\ p_sent_at' = p_now
       ELSE /\ p_now - cb_time >= TokenTimeout
            /\ UNCHANGED <<p_sent_prog, p_sent_at>>
    /\ last_progress' = cb_progress
    /\ last_notification_time' = cb_time
    /\ p_pc' = "download"
    /\ UNCHANGED <<p_now, p_received, cb_time, cb_progress>>
    /\ UNCHANGED notProg

\* time passes, during the transfer or while the callback waits for the token
ProgTick ==
    /\ p_now + ProgTickStep <= ProgStart + ProgHorizon
    /\ p_pc = "notify" => p_now - cb_time < TokenTimeout
    /\ p_now' = p_now + ProgTickStep
    /\ UNCHANGED <<p_pc, p_received, last_progress, last_notification_time, cb_time,
                   cb_progress, p_sent_prog, p_sent_at>>
    /\ UNCHANGED notProg

(***************************************************************************)
(* Composition                                                             *)
(***************************************************************************)

\* the state before the download manager and the limiter are constructed
Init ==
    /\ token_locked = FALSE
    /\ token_waiters = <<>>
    /\ token_woken = {}
    /\ tpc = [p \in Parties |-> "idle"]
    /\ waited = [p \in Services |-> 0]
    /\ dl_final = FALSE
    /\ notif_running = TRUE
    /\ holds = {}
    /\ acq_ret = [p \in Services |-> "none"]
    /\ stream = "closed"
    /\ stopping = FALSE
    /\ processing_files = {}
    /\ tasks = {}
    /\ hpc = [h \in Handlers |-> "unborn"]
    /\ hpath = [h \in Handlers |-> "a.mp4"]
    /\ hcancel = [h \in Handlers |-> FALSE]
    /\ spc = "idle"
    /\ stopwait = {}
    /\ dispatched = [P \in Paths |-> 0]
    /\ hres = [h \in Handlers |-> "none"]
    /\ hconc = [h \in Handlers |-> FALSE]
    /\ midstab = 0
    /\ stop_waited = 0
    /\ snow = EventTime
    /\ f_exists = FALSE
    /\ f_size = 0
    /\ f_mtime = 0
    /\ f_taken = FALSE
    /\ f_changed = FALSE
    /\ s_pc = "idle"
    /\ s_start = 0
    /\ last_size = 0 - 1
    /\ last_modified = 0
    /\ s_in_set = FALSE
    /\ s_disp_at = 0
    /\ s_disp_age = 0
    /\ s_disp_same = FALSE
    /\ s_first_same = 0
    /\ s_out = "none"
    /\ s_unm = 0
    /\ dl_constructed = FALSE
    /\ verify_downloads = FALSE
    /\ download_queue = <<>>
    /\ active_downloads = <<>>
    /\ tfid = [t \in Tasks |-> "none"]
    /\ tstatus = [t \in Tasks |-> "none"]
    /\ wpc = [w \in Workers |-> "none"]
    /\ wtask = [w \in Workers |-> 0]
    /\ transferred = {}
    /\ attempts = [t \in Tasks |-> 0]
    /\ xfail = {}
    /\ dl_files = {}
    /\ fail_notes = [t \in Tasks |-> 0]
    /\ unfinished_tasks = 0
    /\ owing = {}
    /\ td_spurious = {}
    /\ bpc = [m \in Msgs |-> "none"]
    /\ bname = [m \in Msgs |-> "none"]
    /\ bot_active = {}
    /\ temp_files = {}
    /\ final_files = {}
    /\ bopen = [m \in Msgs |-> "none"]
    /\ bstopping = FALSE
    /\ bstop = "idle"
    /\ bgather = {}
    /\ connected = TRUE
    /\ sent_unheld = {}
    /\ lim_kind = "none"
    /\ now = StartTime
    /\ last_update = <<>>
    /\ lim_lock = 0
    /\ cpc = [c \in Callers |-> "idle"]
    /\ ckey = [c \in Callers |-> "k1"]
    /\ cwake = [c \in Callers |-> 0]
    /\ cu_last = <<>>
    /\ cu_gap = [k \in Keys |-> NoGap]
    /\ cu_denied = [k \in Keys |-> FALSE]
    /\ first_cu = [k \in Keys |-> "none"]
    /\ w_last = <<>>
    /\ w_gap = [k \in Keys |-> NoGap]
    /\ sl_max = "unset"
    /\ sl_bytes = 0
    /\ sl_reset = 0
    /\ sl_now = SpeedStart
    /\ sl_lock = 0
    /\ sl_pc = [c \in SpeedCallers |-> "idle"]
    /\ sl_chunk = [c \in SpeedCallers |-> 0]
    /\ sl_wake = [c \in SpeedCallers |-> 0]
    /\ sl_acq = [c \in SpeedCallers |-> 0]
    /\ sl_n = 0
    /\ sl_total = 0
    /\ sl_maxchunk = 0
    /\ sl_equal = 0
    /\ sl_first = 0 - 1
    /\ sl_b2b = TRUE
    /\ sl_done_at = 0
    /\ sl_before = 0
    /\ sl_slept = 0
    /\ sl_ret_elapsed = 0
    /\ rpc = [c \in Notifiers |-> "idle"]
    /\ rreg = {}
    /\ rfut = [c \in Notifiers |-> "pending"]
    /\ rreply = [c \in Notifiers |-> "none"]
    /\ rwaited = [c \in Notifiers |-> 0]
    /\ rret = [c \in Notifiers |-> "none"]
    /\ r_sent = [c \in Notifiers |-> FALSE]
    /\ r_intime = [c \in Notifiers |-> FALSE]
    /\ st_lock = 0
    /\ st_val = 0
    /\ st_pc = [t \in StatThreads |-> "idle"]
    /\ st_arg = [t \in StatThreads |-> 0]
    /\ st_tmp = [t \in StatThreads |-> 0]
    /\ st_calls = [t \in StatThreads |-> 0]
    /\ st_sum = 0
    /\ st_overlap = FALSE
    /\ a_lock = "none"
    /\ a_pc = [c \in Askers |-> "idle"]
    /\ a_poll = "idle"
    /\ a_reply = [c \in Askers |-> "none"]
    /\ a_fut = [c \in Askers |-> "pending"]
    /\ a_reg = {}
    /\ a_waited = [c \in Askers |-> 0]
    /\ a_ret = [c \in Askers |-> "none"]
    /\ a_intime = [c \in Askers |-> FALSE]
    /\ download_lock = 0
    /\ p_now = ProgStart
    /\ p_pc = "download"
    /\ p_received = 0
    /\ last_progress = -1
    /\ last_notification_time = 0
    /\ cb_time = 0
    /\ cb_progress = 0
    /\ p_sent_prog = -1
    /\ p_sent_at = 0

NextToken ==
    \/ \E p \in Services : \E final \in BOOLEAN : AcquireFast(p, final)
    \/ \E p \in Services : \E final \in BOOLEAN : AcquireBlock(p, final)
    \/ \E p \in Services : AcquireResume(p)
    \/ \E p \in Services : AcquireTimeout(p)
    \/ \E p \in Services : EnsureRelease(p)
    \/ DownloadRelease
    \/ PollAcquireFast
    \/ PollAcquireBlock
    \/ PollAcquireResume
    \/ PollRelease
    \/ PollSleepDone
    \/ NotifStop
    \/ TokenTick

NextWatch ==
    \/ \E P \in Paths : on_created(P)
    \/ \E h \in Handlers : create_processing_task(h)
    \/ \E h \in Handlers : handle_new_file(h)
    \/ \E h \in Handlers : \E obs \in {"timeout", "again", "stable"} :
           wait_for_file_ready(h, obs)
    \/ \E h \in Handlers : \E res \in ProcessResults : process_file_done(h, res)
    \/ \E h \in Handlers : move_to_unmatched_done(h)
    \/ stop_begin
    \/ stop_return
    \/ WatchTick

NextStab ==
    \/ stab_handle_new_file
    \/ stab_poll
    \/ \E res \in ProcessResults : stab_process_done(res)
    \/ fs_write
    \/ fs_delete

NextDl ==
    \/ \E verify \in BOOLEAN : download_manager_init(verify)
    \/ \E t \in Tasks : \E f \in FileIds : process_media_message(t, f)
    \/ \E w \in Workers : worker_get(w)
    \/ \E w \in Workers : \E res \in TransferOutcomes : transfer_done(w, res)
    \/ \E w \in Workers : \E res \in TransferOutcomes : verify_done(w, res)
    \/ \E w \in Workers : \E res \in {"ok", "raise"} : stats_ok_done(w, res)
    \/ \E w \in Workers : notify_ok_done(w)
    \/ \E w \in Workers : notify_fail_done(w)
    \/ \E w \in Workers : \E res \in {"ok", "raise"} : stats_fail_done(w, res)
    \/ \E w \in Workers : worker_error_done(w)

\* the download manager with worker tasks that can be cancelled
NextWorker ==
    \/ NextDl
    \/ \E w \in Workers : worker_cancel(w)

NextBot ==
    \/ \E m \in Msgs : \E n \in Names : bot_process_media(m, n)
    \/ \E m \in Msgs : bot_exists_done(m)
    \/ \E m \in Msgs : bot_start_download(m)
    \/ \E m \in Msgs : \E res \in {"ok", "raise"} : bot_transfer_done(m, res)
    \/ \E m \in Msgs : bot_complete_done(m)
    \/ \E m \in Msgs : bot_fail_done(m)
    \/ bot_stop_begin
    \/ bot_stop_gather
    \/ bot_stop_gathered
    \/ bot_stop_disconnect
    \/ bot_stop_return

NextLim ==
    \/ \E kind \in Kinds : limiter_init(kind)
    \/ \E c \in Callers : \E k \in Keys : can_update(c, k)
    \/ \E c \in Callers : \E k \in Keys : wait_if_needed(c, k)
    \/ \E c \in Callers : \E k \in Keys : wait_blocked(c, k)
    \/ \E c \in Callers : wait_lock_acquired(c)
    \/ \E c \in Callers : wait_wakeup(c)
    \/ LimTick

NextSpeed ==
    \/ \E m \in Ceilings : speed_init(m)
    \/ \E c \in SpeedCallers : \E n \in ChunkSizes : limit(c, n)
    \/ \E c \in SpeedCallers : limit_lock_acquired(c)
    \/ \E c \in SpeedCallers : limit_wake(c)
    \/ SpeedTick

NextReply ==
    \/ \E c \in Notifiers : notify_send(c)
    \/ \E c \in Notifiers : \E res \in {"ok", "raise"} : send_message_done(c, res)
    \/ \E c \in Notifiers : user_reply(c)
    \/ \E c \in Notifiers : handle_message_response(c)
    \/ \E c \in Notifiers : wait_for_response_done(c)
    \/ \E c \in Notifiers : wait_for_response_timeout(c)
    \/ ReplyTick

NextStats ==
    \/ \E t \in StatThreads : \E v \in IncValues : increment_call(t, v)
    \/ \E t \in StatThreads : increment(t)
    \/ \E t \in StatThreads : increment_load(t)
    \/ \E t \in StatThreads : increment_store(t)

NextAsk ==
    \/ \E c \in Askers : ask_acquire(c)
    \/ \E c \in Askers : ask_acquire_timeout(c)
    \/ \E c \in Askers : \E res \in {"ok", "raise"} : ask_send_done(c, res)
    \/ \E c \in Askers : ask_user_reply(c)
    \/ \E c \in Askers : ask_wait_done(c)
    \/ \E c \in Askers : ask_wait_timeout(c)
    \/ poll_acquire
    \/ poll_get_updates_done
    \/ poll_sleep_done
    \/ downloader_release
    \/ AskTick

NextProg ==
    \/ \E d \in PercentSteps : progress_callback(d)
    \/ \E res \in {"sent", "dropped"} : progress_notify_done(res)
    \/ ProgTick

Next == NextToken \/ NextWatch \/ NextStab \/ NextWorker \/ NextBot \/ NextLim \/ NextSpeed \/ NextReply \/ NextStats \/ NextAsk \/ NextProg

SpecToken == Init /\ [][NextToken]_vars

SpecWatch == Init /\ [][NextWatch]_vars

\* the watcher with at most MaxStopEvents creation events
NextWatchStop ==
    \/ \E P \in Paths : stop_on_created(P)
    \/ \E h \in Handlers : create_processing_task(h)
    \/ \E h \in Handlers : handle_new_file(h)
    \/ \E h \in Handlers : \E obs \in {"timeout", "again", "stable"} :
           wait_for_file_ready(h, obs)
    \/ \E h \in Handlers : \E res \in ProcessResults : process_file_done(h, res)
    \/ \E h \in Handlers : move_to_unmatched_done(h)
    \/ stop_begin
    \/ stop_return
    \/ WatchTick

\* the event loop keeps running: time passes and asyncio.wait returns
FairSpecWatch ==
    /\ Init /\ [][NextWatchStop]_vars
    /\ WF_vars(WatchTick)
    /\ WF_vars(stop_return)

SpecStab == Init /\ [][NextStab]_vars

SpecDl == Init /\ [][NextDl]_vars

SpecWorker == Init /\ [][NextWorker]_vars

SpecBot == Init /\ [][NextBot]_vars

SpecLim == Init /\ [][NextLim]_vars

SpecSpeed == Init /\ [][NextSpeed]_vars

SpecReply == Init /\ [][NextReply]_vars

SpecStats == Init /\ [][NextStats]_vars

SpecAsk == Init /\ [][NextAsk]_vars

SpecProg == Init /\ [][NextProg]_vars

Spec == Init /\ [][Next]_vars

\* the scheduling the event loop guarantees for acquire_token: time passes, a
\* due timeout fires and a woken waiter is resumed
FairSpecToken ==
    /\ SpecToken
    /\ WF_vars(TokenTick)
    /\ \A p \in Services : WF_vars(AcquireTimeout(p)) /\ WF_vars(AcquireResume(p))

(***************************************************************************)
(* Token coordinator: properties                                           *)
(***************************************************************************)

\* C1: at most one party holds the notification token at any time: no party
\* becomes holder while another party that acquired the token has not yet
\* released it itself.
C1_AtMostOneHolder == Cardinality(holds) <= 1

\* a release_token call of service p: the finally clause of
\* ensure_token_and_notify or line 206 of _download_file
ReleaseStep(p) == tpc[p] \in {"notify", "dl206"} /\ tpc'[p] # tpc[p]

\* C2: release_token called by a service that does not hold the token leaves
\* the token state unchanged (and raises no error).
C2_ReleaseByNonHolderIsNoOp ==
    [][\A p \in Services :
          (ReleaseStep(p) /\ p \notin holds) =>
              /\ token_locked' = token_locked
              /\ token_waiters' = token_waiters
              /\ token_woken' = token_woken]_vars

\* the token is held by, or has just been handed to, a party other than p
TakenByOther(p) == token_locked \/ (token_woken \ {p}) # {}

AcquireReturnsTrue(p) == tpc[p] \in {"idle", "acq_wait"} /\ tpc'[p] = "notify"

AcquireReturnsFalse(p) == tpc[p] = "acq_wait" /\ tpc'[p] \in {"idle", "dl206"}

\* C10 (safety part): acquire_token returns True exactly when the caller has
\* become the holder; it returns False only once 30 s have elapsed with the
\* token still taken by another party, and then the caller does not hold the
\* token and the lock and its holder are unchanged.
C10_AcquireResult ==
    [][\A p \in Services :
          /\ AcquireReturnsTrue(p) <=> (p \notin holds /\ p \in holds')
          /\ AcquireReturnsTrue(p) => (token_locked' /\ acq_ret'[p] = "true")
          /\ AcquireReturnsFalse(p) =>
                /\ acq_ret'[p] = "false"
                /\ waited[p] >= TokenTimeout
                /\ TakenByOther(p)
                /\ p \notin holds'
                /\ holds' = holds
                /\ token_locked' = token_locked
                /\ token_woken' = token_woken]_vars

\* C10 (liveness part): a caller never waits forever, even if the holder never
\* releases: every acquire_token call returns, i.e. each service is outside
\* the wait of acquire_token again and again.
C10_AcquireReturns ==
    \A p \in Services : []<>(tpc[p] # "acq_wait")

\* C10: every acquire_token call returns, True exactly when the caller became
\* the holder, False after the timeout with caller and holder unchanged.
C10_AcquireToken == C10_AcquireResult /\ C10_AcquireReturns

\* a service was refused after the full timeout while another party held on
C10_Witness ==
    \E p \in Services :
        /\ acq_ret[p] = "false"
        /\ waited[p] = TokenTimeout
        /\ token_locked
        /\ holds \ {p} # {}

C13_NoInterleaving == stream # "interleaved"

(***************************************************************************)
(* Watcher: properties                                                     *)
(***************************************************************************)

\* the _handle_new_file calls for path P whose body has run
Calls(P) == {h \in Handlers : hpath[h] = P /\ hres[h] \notin {"none", "never_ran"}}

\* exactly two _handle_new_file calls were made for P and they overlapped
TwoConcurrentCalls(P) ==
    /\ Cardinality(Calls(P)) = 2
    /\ \E h \in Calls(P) : hconc[h]

C4_ProcessingSetInvariant ==
    \A P \in Paths :
        LET fl == {h \in Handlers : hpath[h] = P /\ hpc[h] \in InFlight}
        IN  /\ (fl # {} => P \in processing_files)
            /\ Cardinality(fl) <= 1

\* C9: after stop() has returned, process_file is never called again.
C9_NoDispatchAfterStop ==
    [][spc = "returned" => dispatched' = dispatched]_vars

\* stop() has returned, having been called while two paths were waiting to
\* stabilize, and a cancelled handler has not run yet
C9_Witness ==
    /\ spc = "returned"
    /\ midstab >= 2
    /\ \E h \in Handlers : hpc[h] = "wait" /\ hcancel[h]

\* C31 (batch): stop() sets _stopping and cancels every task that is in _tasks
\* in one step, and then waits for exactly these tasks.
C31_CancelsBatch ==
    [][(spc = "idle" /\ spc' # "idle") =>
          /\ stopping'
          /\ \A h \in tasks : hcancel'[h]
          /\ tasks # {} => (spc' = "waiting" /\ stopwait' = tasks)]_vars

\* C31 (bounded wait): asyncio.wait ends when all the cancelled tasks are done
\* or when 5 s are over, not before and not later, and stop() returns with
\* _tasks empty.
C31_BoundedWait ==
    /\ [](stop_waited <= StopTimeout)
    /\ [](spc = "returned" => tasks = {})
    /\ [][(spc = "waiting" /\ spc' # "waiting") =>
             /\ stopwait \cap tasks = {} \/ stop_waited >= StopTimeout
             /\ spc' = "returned"
             /\ tasks' = {}]_vars

\* C31 (termination): stop() does not stay in its wait forever.
C31_Returns == []<>(spc # "waiting")

\* C31: stop() cancels every outstanding processing task as one batch, waits
\* at most 5 s for them to finish and then returns with an empty task set; it
\* always returns, also when a creation event is being submitted from the
\* watch thread at the same time.
C31_StopCancelsAndReturns == C31_CancelsBatch /\ C31_BoundedWait /\ C31_Returns

\* stop() has returned after the full 5 s with a cancelled task still running,
\* and a creation event submitted before stop() was turned into no task
C31_Witness ==
    /\ spc = "returned"
    /\ stop_waited = StopTimeout
    /\ \E h \in Handlers : hpc[h] = "dropped"
    /\ \E h \in Handlers : hpc[h] \in InFlight /\ hcancel[h]

\* a step of the watch thread: on_created runs for a creation event
WatchThreadStep == \E h \in Handlers : hpc[h] = "unborn" /\ hpc'[h] # "unborn"

\* C37: a creation event delivered on the watch thread is never processed on
\* that thread: on_created only submits the coroutine to the event loop, and
\* the step of the watch thread leaves the processing set, the task set and
\* the dispatch of files as they are; they change in steps of the loop only.
C37_HandedToLoop ==
    [][WatchThreadStep =>
          /\ \A h \in Handlers :
                 (hpc[h] = "unborn" /\ hpc'[h] # "unborn") => hpc'[h] = "submitted"
          /\ tasks' = tasks
          /\ processing_files' = processing_files
          /\ dispatched' = dispatched]_vars

\* an event is submitted and waits for the loop while the loop has made a
\* task of an earlier event and put its path into the processing set
C37_Witness ==
    \E h, g \in Handlers :
        /\ hpc[h] = "submitted"
        /\ hpc[g] = "wait" /\ g \in tasks /\ hpath[g] \in processing_files

(***************************************************************************)
(* Stabilization gate: properties                                          *)
(***************************************************************************)

\* the timeout of _wait_for_file_ready has run out on a call that had not
\* found the file stable before
Expired ==
    /\ s_pc # "idle"
    /\ snow - s_start >= FileTimeout
    /\ (s_disp_at = 0 \/ s_disp_at - s_start >= FileTimeout)

\* C19: if a detected file does not become stable within the timeout (30 s),
\* or never comes to exist, its handler ends without calling the categorizer,
\* removes the path from the processing set, and neither moves nor deletes
\* the file.
C19_TimeoutLeavesFile ==
    Expired =>
        /\ s_pc = "timed_out"
        /\ ~s_in_set
        /\ s_disp_at = 0
        /\ ~f_taken

\* the handler of a file that was still being written gave up after 30 s
C19_Witness ==
    /\ s_pc = "timed_out"
    /\ f_exists
    /\ snow - f_mtime < StableAge
    /\ f_size = MaxSize

\* C20 as stated: a file that grows and then stops changing is dispatched one
\* polling interval after its last change: never while two consecutive polls
\* differ, and at the first poll that sees it unchanged.
C20_DispatchAtFirstUnchangedPoll ==
    s_disp_at # 0 => (s_disp_same /\ s_disp_at = s_first_same)

\* C20 as amended: a file that grows and then stops changing is dispatched at
\* the first poll that finds size and modification time as the previous poll
\* found them and the modification time one second old: never while two
\* consecutive polls differ, and one second after its last change.
C20_DispatchAfterQuietSecond ==
    s_disp_at # 0 => (s_disp_same /\ s_disp_age = StableAge)

\* a file that grew to its full size was dispatched, later than the first
\* poll that saw it unchanged
C20_Witness ==
    /\ s_disp_at # 0
    /\ f_size = MaxSize
    /\ s_disp_age = StableAge
    /\ s_first_same # 0
    /\ s_first_same < s_disp_at

\* C28: for each dispatched file the watcher calls move_to_unmatched exactly
\* once when process_file returns a false result or raises, and never when
\* process_file reports success.
C28_UnmatchedOnlyOnFailure ==
    s_pc = "done" =>
        /\ s_out = "raised" => s_unm = 1
        /\ s_out = "returned_none" => s_unm = 0

(***************************************************************************)
(* Download queue: properties                                              *)
(***************************************************************************)

\* C5 (what a finite run shows of it): a task whose transfer has returned or
\* raised does not remain in status downloading once its worker is through
\* with it, and the status it ends with is completed or error.
C5_TerminalStatus ==
    \A t \in Tasks :
        (t \in transferred /\ \A w \in Workers : wtask[w] # t) =>
            tstatus[t] \in {"completed", "error"}

\* C6: at no time are more than max_concurrent_downloads transfers in
\* progress: neither worker tasks, nor tasks in status downloading, nor
\* transfers started by _process_media exceed the ceiling.
C6_ConcurrencyCeiling ==
    /\ Cardinality({w \in Workers : wpc[w] # "none"}) <= max_concurrent_downloads
    /\ Cardinality({t \in Tasks : tstatus[t] = "downloading"}) <= max_concurrent_downloads
    /\ Cardinality({m \in Msgs : bpc[m] = "transfer"}) <= max_concurrent_downloads

\* a worker is inside the try block of _process_download for task t
BeingProcessed(t) == \E w \in Workers : wtask[w] = t /\ wpc[w] \in Processing

\* task t is the entry of the active-task map under its file_id
InActiveMap(t) ==
    /\ tfid[t] \in DOMAIN active_downloads
    /\ active_downloads[tfid[t]] = t

\* C12: every message sent on the notification channel by the downloader, the
\* download manager, the categorizer or the watcher is sent while the sender
\* holds the token.
C12_SendsHoldToken == sent_unheld = {}

\* C14: a task is in the active-task map exactly while it is being processed,
\* and the map is empty whenever the queue is empty and every worker is idle,
\* also when two tasks carry the same file_id.
C14_ActiveMapExact ==
    /\ \A t \in Tasks : BeingProcessed(t) <=> InActiveMap(t)
    /\ (download_queue = <<>> /\ \A w \in Workers : wpc[w] \in {"none", "get"})
           => DOMAIN active_downloads = {}

\* C15: a task whose transfer failed is marked as failed only after the
\* transfer was retried max_retries times on the same task record, which is
\* never put back on the queue.
C15_RetriedBeforeError ==
    \A t \in Tasks :
        (t \in xfail /\ tstatus[t] \notin {"queued", "downloading"}) =>
            /\ attempts[t] = max_retries + 1
            /\ \A i \in 1..Len(download_queue) : download_queue[i] # t

\* C16: once the handling of a failed transfer is over, the task is marked
\* error, no partial file is left at its download path, exactly one failure
\* notification was sent and the task is out of the active-task map.
C16_FailureHandling ==
    \A t \in Tasks :
        (t \in xfail /\ \A w \in Workers : wtask[w] # t) =>
            /\ tstatus[t] = "error"
            /\ t \notin dl_files
            /\ fail_notes[t] = 1
            /\ ~InActiveMap(t)

\* C26: when ensure_token_and_notify cannot acquire the token within the
\* timeout it sends nothing on the channel and returns without raising, and
\* the caller carries on: the downloader whose completion message is dropped,
\* the file being renamed into place already, goes on to line 206.
C26_DroppedNotification ==
    [][\A p \in Services :
          (tpc[p] = "acq_wait" /\ acq_ret'[p] = "false") =>
              /\ waited[p] >= TokenTimeout
              /\ tpc'[p] = AfterEnsure(p)
              /\ tpc'[p] # "notify"
              /\ stream' = stream
              /\ token_locked' = token_locked
              /\ holds' = holds
              /\ dl_final' = dl_final]_vars

\* the completion message of a download was dropped after the full timeout
\* and _download_file has gone on to its release_token call
C26_Witness ==
    /\ acq_ret[Downloader] = "false"
    /\ tpc[Downloader] = "dl206"
    /\ dl_final
    /\ Downloader \notin holds

(***************************************************************************)
(* TelegramDownloader: properties                                          *)
(***************************************************************************)

\* C17: a file at its final path in the watched directory is complete: no
\* download_media call that is still running writes into a file that is
\* linked at a final path.
C17_FinalOnlyWhenComplete ==
    \A m \in Msgs : bopen[m] # "final"

\* C18: once stop() has been called no new transfer is started, and the
\* client is disconnected only when every started transfer has finished.
C18_StopDownloader ==
    [][/\ bstopping => \A m \in Msgs : bpc'[m] = "transfer" => bpc[m] = "transfer"
       /\ (connected /\ ~connected') => bot_active = {}]_vars

(***************************************************************************)
(* Rate limiters: properties                                               *)
(***************************************************************************)

\* C7: for every key, of any two can_update calls made less than min_interval
\* apart at most one returns True, on all three limiter classes and with
\* concurrent callers; the first call for a key returns True.
C7_CanUpdateSpacing ==
    \A k \in Keys : cu_gap[k] >= MinInterval /\ first_cu[k] # "false"

\* a key was permitted by its first call, denied, and permitted again exactly
\* one interval after the first permit
C7_Witness ==
    \E k \in Keys :
        /\ cu_gap[k] = MinInterval
        /\ cu_denied[k]
        /\ first_cu[k] = "true"

\* C8: the timestamps recorded by concurrent wait_if_needed calls for one key
\* are pairwise at least min_interval apart.
C8_WaitSpacing ==
    \A k \in Keys : w_gap[k] >= MinInterval

\* C21: activity on one key never affects another: a caller of
\* wait_if_needed(A) is never held up while another caller is waiting out the
\* interval of a different key B.
C21_KeysIndependent ==
    \A c, d \in Callers :
        (cpc[c] = "lock" /\ cpc[d] = "sleep" /\ lim_lock = d) => ckey[c] = ckey[d]

\* C40: a can_update(K) call that returns False changes the recorded
\* timestamp of no key, so a denied attempt never postpones the next
\* permitted action for K: K is permitted one interval after its timestamp.
C40_DeniedChangesNothing ==
    /\ [][(\E k \in Keys : cu_denied'[k] # cu_denied[k]) =>
             last_update' = last_update]_vars
    /\ [](\A k \in Keys :
             (k \in DOMAIN last_update /\ now >= last_update[k] + MinInterval) => Allowed(k))

\* both keys were denied and carry the different timestamps of their permits
C40_Witness ==
    \E k, j \in Keys :
        /\ cu_denied[k] /\ cu_denied[j]
        /\ k \in DOMAIN last_update /\ j \in DOMAIN last_update
        /\ last_update[k] < last_update[j]
        /\ now < last_update[k] + MinInterval

(***************************************************************************)
(* Byte-rate limiter: properties                                           *)
(***************************************************************************)

\* every limit call made so far has returned, under a ceiling
SpeedQuiet ==
    /\ sl_max = "limited"
    /\ sl_n > 0
    /\ \A c \in SpeedCallers : sl_pc[c] = "idle"

\* C22: with a ceiling, the time from the first limit call to the return of
\* the last is never less than the time the ceiling allows for all bytes
\* passed, up to one chunk's worth of tolerance, also across the resets of the
\* byte counter.
C22_ElapsedAtLeastBytesOverCeiling ==
    SpeedQuiet => sl_done_at - sl_first >= sl_total - sl_maxchunk

\* C23: equal chunks that together amount to one second of data at the
\* ceiling, passed back-to-back, take at least one second.
C23_OneSecondOfChunks ==
    (SpeedQuiet /\ sl_b2b /\ sl_equal > 0 /\ sl_total = TicksPerSecond)
        => sl_done_at - sl_first >= TicksPerSecond

C25_NoCeilingNoOp ==
    [][(NoCeiling /\ sl_n' = sl_n + 1) =>
          /\ sl_bytes' = sl_bytes
          /\ sl_reset' = sl_reset
          /\ sl_now' = sl_now
          /\ sl_pc' = sl_pc
          /\ sl_lock' = sl_lock]_vars

\* chunks of both sizes were passed to a limiter without a ceiling
C25_Witness ==
    /\ NoCeiling
    /\ sl_equal = 0 - 1
    /\ sl_n = MaxChunks
    /\ sl_bytes = 0

(***************************************************************************)
(* Replies: properties                                                     *)
(***************************************************************************)

\* C29: notify(wait_response=True) returns the text of the user's reply to the
\* sent message whenever that reply is handled before response_timeout, also
\* when it is handled while the send call is still in progress; it returns
\* None only when no reply to the message arrived in time.
C29_ReplyReturned ==
    \A c \in Notifiers :
        (rpc[c] = "returned" /\ r_sent[c]) =>
            /\ r_intime[c] => rret[c] = "text"
            /\ rret[c] = "None" => ~r_intime[c]

(***************************************************************************)
(* StatsManager: properties                                                *)
(***************************************************************************)

\* all increment calls made so far have returned
StatsQuiet == \A t \in StatThreads : st_pc[t] = "idle"

\* C30: concurrent increment calls of several threads on the same category and
\* metric are never lost: once all calls have returned the metric equals its
\* initial value (0.0 of the defaultdict) plus the sum of all increments.
C30_NoLostIncrement == StatsQuiet => st_val = st_sum

\* all threads have made all their calls, some of them while another call was
\* in progress
C30_Witness ==
    /\ StatsQuiet
    /\ st_overlap
    /\ \A t \in StatThreads : st_calls[t] = MaxIncrements

(***************************************************************************)
(* Download queue: properties of a finished download                       *)
(***************************************************************************)

\* C32: once _process_download has set a task's status to completed, the
\* status is never changed to failed afterwards, whatever is raised after that
\* point.
C32_CompletedStays ==
    [][\A t \in Tasks : tstatus[t] = "completed" => tstatus'[t] = "completed"]_vars

(***************************************************************************)
(* TelegramDownloader: properties of concurrent downloads                  *)
(***************************************************************************)

\* C33: two downloads that are in progress at the same time never have the
\* same file name, i.e. never write to the same temporary path and never
\* target the same final path: a media message whose file name is already
\* being downloaded starts no second transfer.
C33_DistinctPaths ==
    \A m, u \in Msgs :
        (m # u /\ bpc[m] = "transfer" /\ bpc[u] = "transfer") => bname[m] # bname[u]

(***************************************************************************)
(* Download workers: task_done accounting                                  *)
(***************************************************************************)

\* C34: a download worker calls task_done exactly once for each task it took
\* from the queue and never without having taken one, also when it is
\* cancelled while it waits on an empty queue: no call is made by a worker
\* that owes none, a worker between two tasks owes none, and the queue's
\* count of unfinished tasks is the tasks queued plus the tasks taken and not
\* yet reported.
C34_TaskDoneOncePerTask ==
    /\ td_spurious = {}
    /\ \A w \in Workers : wpc[w] \in {"none", "get"} => w \notin owing
    /\ unfinished_tasks = Len(download_queue) + Cardinality(owing)

(***************************************************************************)
(* Questions: properties                                                   *)
(***************************************************************************)

\* C35: while a service is inside ensure_token_and_notify(wait_response=True)
\* waiting for an answer, a reply the user sends is fetched by the update-poll
\* loop and delivered to the waiting caller before response_timeout expires:
\* a call during whose wait the user replied in time returns the reply text.
C35_ReplyDelivered ==
    \A c \in Askers :
        (a_pc[c] = "returned" /\ a_intime[c]) => a_ret[c] = "text"

(***************************************************************************)
(* Shared-resource policy: properties                                      *)
(***************************************************************************)

\* C36: the download manager's active-task map is changed only while
\* _download_lock is held, and the watcher's processing-path set only inside
\* the "async with self._processing_lock" blocks at the entry and in the
\* finally clause of _handle_new_file.
C36_ChangedUnderLock ==
    [][/\ active_downloads' # active_downloads => download_lock # 0
       /\ processing_files' # processing_files =>
              \E h \in Handlers :
                  \/ hpc[h] = "created" /\ hpc'[h] = "wait"
                  \/ hpc[h] # "done" /\ hpc'[h] = "done"]_vars

(***************************************************************************)
(* Progress notifications: properties                                      *)
(***************************************************************************)

\* C38: for one download, a progress notification is sent only when progress
\* has advanced at least 5 percentage points since the last progress
\* notification or at least 30 seconds have passed since that notification
\* was sent; progress callbacks in between send nothing.
C38_ProgressThrottle ==
    [][(p_sent_prog' # p_sent_prog /\ p_sent_prog # -1) =>
          \/ p_sent_prog' >= p_sent_prog + ProgressStep
          \/ p_sent_at' - p_sent_at >= ProgressInterval]_vars

(***************************************************************************)
(* SpeedLimiter: serialization of concurrent callers                       *)
(***************************************************************************)

\* the callers inside the critical section of limit, between the delay
\* computation and the counter update
InLimitSection == {c \in SpeedCallers : sl_pc[c] = "sleep"}

\* C39 (state part): at most one caller is between its delay computation and
\* its counter update, and it holds the lock.
C39_OneInSection ==
    /\ Cardinality(InLimitSection) <= 1
    /\ \A c \in InLimitSection : sl_lock = c

\* C39 (step part): while a caller sleeps inside limit no other caller reads
\* or changes the byte counter or the window: the others stay where they are
\* or start to wait for the lock; the sleeper's own update adds its chunk to
\* the counter its delay was computed from.
C39_NoReadInBetween ==
    [][\A c \in SpeedCallers :
          sl_pc[c] = "sleep" =>
              /\ sl_reset' = sl_reset
              /\ \A d \in SpeedCallers \ {c} :
                     sl_pc'[d] # sl_pc[d] => (sl_pc[d] = "idle" /\ sl_pc'[d] = "lock")
              /\ IF sl_pc'[c] = "sleep"
                 THEN sl_bytes' = sl_bytes
                 ELSE sl_bytes' = sl_bytes + sl_chunk[c] /\ sl_lock' = 0]_vars

\* C39: concurrent callers of SpeedLimiter.limit are serialized: computing the
\* delay, sleeping and adding the chunk to the byte counter are one critical
\* section per call, and no caller reads the counter between another caller's
\* delay computation and its counter update.
C39_Serialized == []C39_OneInSection /\ C39_NoReadInBetween

\* a caller sleeps inside limit while the other one waits for the lock
C39_Witness ==
    \E c, d \in SpeedCallers :
        /\ sl_pc[c] = "sleep" /\ sl_lock = c /\ sl_now < sl_wake[c]
        /\ sl_pc[d] = "lock"

====
